---- MODULE Spec2Model ----
(***************************************************************************)
(* SimTradeLab: lifecycle controller, strategy execution engine, portfolio *)
(* ledger, order processor and blotter, as state machines.                 *)
(*                                                                         *)
(* Money, prices and rates are exact fractions.  Dates are day numbers.    *)
(* Strings name the lifecycle phases by their enum values.                 *)
(***************************************************************************)
EXTENDS Integers, Sequences, FiniteSets, TLC

VARIABLES
    current_phase,      \* LifecycleController._current_phase ("none" = None)
    phase_executed,     \* LifecycleController._phase_executed
    portfolio,          \* Portfolio: cash, positions, lots, value cache
    current_dt,         \* Context.current_dt (a day number)
    cfg,                \* trading configuration read by the order processor
    total_commission,   \* context.total_commission (0 until first set)
    dividends_paid,     \* the dividend events of current_dt have been processed
    last_read,          \* the value and date of the latest portfolio_value read
    run,                \* StrategyExecutionEngine: the run_backtest call in progress
    blotter,            \* context.blotter and the Order objects it created
    ops,                \* number of operations performed (bounds the run)
    controller,         \* LifecycleController: mode, call history, counters, callbacks
    call_log,           \* observation: every record_api_call since the last reset
    threads,            \* the controller's RLock and the calls threads have in progress
    stock_data,         \* a StockData object of the day and the global ma_cache
    last                \* observation: the last operation and its outcome

vars == <<current_phase, phase_executed, portfolio, current_dt, cfg,
          total_commission, dividends_paid, last_read, run, blotter,
          ops, controller, call_log, threads, stock_data, last>>

\* An optional value (Python's None or a value): Nil or Some(v).
Nil == <<>>
Some(v) == <<v>>
Val(o) == o[1]

(***************************************************************************)
(* Exact arithmetic on money, prices and rates: fractions n/d in lowest    *)
(* terms with d > 0 (the code computes on floats).                         *)
(***************************************************************************)
Abs(x) == IF x < 0 THEN -x ELSE x

RECURSIVE GCD(_, _)
GCD(a, b) == IF b = 0 THEN a ELSE GCD(b, a % b)

Q(n, d) ==
    LET g == GCD(Abs(n), d) IN [n |-> n \div g, d |-> d \div g]

I(n) == [n |-> n, d |-> 1]

Zero == I(0)

RAdd(x, y) ==
    LET g == GCD(x.d, y.d)
        l == (x.d \div g) * y.d
    IN Q(x.n * (l \div x.d) + y.n * (l \div y.d), l)

RNeg(x) == [n |-> -x.n, d |-> x.d]

RSub(x, y) == RAdd(x, RNeg(y))

RMul(x, y) ==
    LET g1 == GCD(Abs(x.n), y.d)
        g2 == GCD(Abs(y.n), x.d)
    IN IF x.n = 0 \/ y.n = 0 THEN Zero
       ELSE [n |-> (x.n \div g1) * (y.n \div g2),
             d |-> (x.d \div g2) * (y.d \div g1)]

\* x / k for an integer k > 0
RDivInt(x, k) == RMul(x, Q(1, k))

RLe(x, y) == RSub(x, y).n <= 0
RLt(x, y) == RSub(x, y).n < 0
RMax(x, y) == IF RLe(x, y) THEN y ELSE x

(***************************************************************************)
(* LifecycleController                                                     *)
(***************************************************************************)
None == "none"

INITIALIZE == "initialize"
BEFORE_TRADING_START == "before_trading_start"
HANDLE_DATA == "handle_data"
AFTER_TRADING_END == "after_trading_end"
TICK_DATA == "tick_data"
ON_ORDER_RESPONSE == "on_order_response"
ON_TRADE_RESPONSE == "on_trade_response"

LifecyclePhase ==
    {INITIALIZE, BEFORE_TRADING_START, HANDLE_DATA, AFTER_TRADING_END,
     TICK_DATA, ON_ORDER_RESPONSE, ON_TRADE_RESPONSE}

\* A slip in the table: after_trading_end may also go to handle_data.
allowed_transitions_ate_hd(old_phase) ==
    CASE old_phase = None -> {INITIALIZE}
      [] old_phase = INITIALIZE -> {BEFORE_TRADING_START, HANDLE_DATA}
      [] old_phase = BEFORE_TRADING_START -> {HANDLE_DATA, TICK_DATA}
      [] old_phase = HANDLE_DATA ->
            {HANDLE_DATA, TICK_DATA, AFTER_TRADING_END, ON_ORDER_RESPONSE,
             ON_TRADE_RESPONSE}
      [] old_phase = TICK_DATA ->
            {TICK_DATA, HANDLE_DATA, ON_ORDER_RESPONSE, ON_TRADE_RESPONSE}
      [] old_phase = ON_ORDER_RESPONSE ->
            {HANDLE_DATA, TICK_DATA, ON_TRADE_RESPONSE}
      [] old_phase = ON_TRADE_RESPONSE -> {HANDLE_DATA, TICK_DATA}
      [] old_phase = AFTER_TRADING_END ->
            {BEFORE_TRADING_START, INITIALIZE, HANDLE_DATA}
      [] OTHER -> {}

\* The table of _validate_phase_transition; .get(old_phase, []) for the rest.
allowed_transitions(old_phase) ==
    CASE old_phase = None -> {INITIALIZE}
      [] old_phase = INITIALIZE -> {BEFORE_TRADING_START, HANDLE_DATA}
      [] old_phase = BEFORE_TRADING_START -> {HANDLE_DATA, TICK_DATA}
      [] old_phase = HANDLE_DATA ->
            {HANDLE_DATA, TICK_DATA, AFTER_TRADING_END, ON_ORDER_RESPONSE,
             ON_TRADE_RESPONSE}
      [] old_phase = TICK_DATA ->
            {TICK_DATA, HANDLE_DATA, ON_ORDER_RESPONSE, ON_TRADE_RESPONSE}
      [] old_phase = ON_ORDER_RESPONSE ->
            {HANDLE_DATA, TICK_DATA, ON_TRADE_RESPONSE}
      [] old_phase = ON_TRADE_RESPONSE -> {HANDLE_DATA, TICK_DATA}
      [] old_phase = AFTER_TRADING_END -> {BEFORE_TRADING_START, INITIALIZE}
      [] OTHER -> {}

\* A slip: Initialize is accepted from every phase.
validate_phase_transition_reinit(old_phase, new_phase) ==
    new_phase = INITIALIZE \/ new_phase \in allowed_transitions(old_phase)

\* TRUE when _validate_phase_transition returns, FALSE when it raises
\* PTradeLifecycleError.
validate_phase_transition(old_phase, new_phase) ==
    new_phase \in allowed_transitions(old_phase)

\* A slip: the target is marked executed before the transition is validated.
set_phase_mark_first(cur, executed, phase) ==
    IF validate_phase_transition(cur, phase)
    THEN [phase |-> phase, executed |-> executed \cup {phase}, raised |-> FALSE]
    ELSE [phase |-> cur, executed |-> executed \cup {phase}, raised |-> TRUE]

\* set_phase as a function of the controller state: the new
\* (current_phase, phase_executed) and whether the call raised.
set_phase(cur, executed, phase) ==
    IF validate_phase_transition(cur, phase)
    THEN [phase |-> phase, executed |-> executed \cup {phase}, raised |-> FALSE]
    ELSE [phase |-> cur, executed |-> executed, raised |-> TRUE]

\* lifecycle_config.LIFECYCLE_PHASES
LIFECYCLE_PHASES ==
    <<INITIALIZE, BEFORE_TRADING_START, HANDLE_DATA, AFTER_TRADING_END,
      TICK_DATA, ON_ORDER_RESPONSE, ON_TRADE_RESPONSE>>

\* The operation names used here: configured ones, one that is in neither
\* table, and the empty name.
ApiNames ==
    {"order", "get_snapshot", "set_commission", "get_price", "send_email",
     "get_research_path", "my_helper", ""}

\* API_LIFECYCLE_RESTRICTIONS.get(api_name, ["all"])
API_LIFECYCLE_RESTRICTIONS(api_name) ==
    CASE api_name = "order" -> <<HANDLE_DATA, TICK_DATA>>
      [] api_name = "get_snapshot" -> <<HANDLE_DATA, TICK_DATA>>
      [] api_name = "set_commission" -> <<INITIALIZE>>
      [] api_name = "get_research_path" -> <<INITIALIZE>>
      [] api_name = "send_email" ->
            <<AFTER_TRADING_END, ON_ORDER_RESPONSE, ON_TRADE_RESPONSE>>
      [] api_name = "get_price" -> <<"all">>
      [] OTHER -> <<"all">>

\* API_MODE_RESTRICTIONS.get(api_name, [])
get_api_supported_modes(api_name) ==
    CASE api_name = "order" -> <<"backtest", "trading">>
      [] api_name = "get_snapshot" -> <<"trading">>
      [] api_name = "set_commission" -> <<"backtest">>
      [] api_name = "get_price" -> <<"research", "backtest", "trading">>
      [] OTHER -> <<>>

Range(seq) == {seq[i] : i \in DOMAIN seq}

is_api_supported_in_mode(api_name, mode) ==
    mode \in Range(get_api_supported_modes(api_name))

get_api_allowed_phases(api_name) ==
    LET phases == API_LIFECYCLE_RESTRICTIONS(api_name)
    IN IF phases = <<"all">> THEN LIFECYCLE_PHASES ELSE phases

\* A slip: an operation is allowed in every phase but those of its list.
is_api_allowed_in_phase_negated(api_name, phase_name) ==
    IF api_name = "" \/ phase_name = "" THEN FALSE
    ELSE LET allowed_phases == get_api_allowed_phases(api_name)
         IN IF Len(allowed_phases) = Len(LIFECYCLE_PHASES) THEN TRUE
            ELSE phase_name \notin Range(allowed_phases)

is_api_allowed_in_phase(api_name, phase_name) ==
    IF api_name = "" \/ phase_name = "" THEN FALSE
    ELSE LET allowed_phases == get_api_allowed_phases(api_name)
         IN IF Len(allowed_phases) = Len(LIFECYCLE_PHASES) THEN TRUE
            ELSE phase_name \in Range(allowed_phases)

\* LifecycleController.validate_api_call as a function of the current phase:
\* the LifecycleValidationResult, the error message being the values it is
\* formatted from (an optional: Python's None is the empty tuple).  The
\* method reads _current_phase only, and returns in every case.
validate_api_call(cur, api_name) ==
    IF cur = None
    THEN [is_valid |-> TRUE, error_message |-> <<>>]
    ELSE IF ~is_api_allowed_in_phase(api_name, cur)
    THEN [is_valid |-> FALSE,
          error_message |-> <<[api_name |-> api_name, phase |-> cur,
                               allowed_phases |-> get_api_allowed_phases(api_name)]>>]
    ELSE [is_valid |-> TRUE, error_message |-> <<>>]

\* Context.is_api_allowed: True unless validate_api_call raises, and it
\* returns its result in every case.
is_api_allowed(cur, api_name) ==
    LET result == validate_api_call(cur, api_name)
        raised == FALSE
    IN IF raised THEN FALSE ELSE TRUE

\* LifecycleController._max_history_size
max_history_size == 1000

\* LifecycleController(strategy_mode).  phase_callbacks[phase] is the list
\* of the callbacks registered for the phase; a callback is an identity and
\* what it does when called (return or raise).
NewController(strategy_mode) ==
    [strategy_mode |-> strategy_mode,
     call_history |-> <<>>,
     api_call_count |-> <<>>,
     phase_callbacks |-> [p \in LifecyclePhase |-> <<>>]]

\* The name a record carries for the phase: current_phase_name or "unknown"
recorded_phase(cur) == IF cur = None THEN "unknown" ELSE cur

\* A slip: the history keeps its first records and drops the new ones.
record_api_call_keep_oldest(ctl, cur, api_name, success) ==
    LET record == [api_name |-> api_name, phase |-> recorded_phase(cur),
                   success |-> success]
        appended == Append(ctl.call_history, record)
        history == IF Len(appended) > max_history_size
                   THEN SubSeq(appended, 1, max_history_size)
                   ELSE appended
        count == IF api_name \in DOMAIN ctl.api_call_count
                 THEN ctl.api_call_count[api_name] ELSE 0
    IN [ctl EXCEPT !.call_history = history,
                   !.api_call_count =
                        [a \in DOMAIN @ \cup {api_name} |->
                            IF a = api_name THEN count + 1 ELSE @[a]]]

\* LifecycleController.record_api_call (timestamp, args, kwargs and error
\* are carried by the record and read by nothing here)
record_api_call(ctl, cur, api_name, success) ==
    LET record == [api_name |-> api_name, phase |-> recorded_phase(cur),
                   success |-> success]
        appended == Append(ctl.call_history, record)
        history == IF Len(appended) > max_history_size
                   THEN SubSeq(appended, Len(appended) - max_history_size + 1,
                               Len(appended))
                   ELSE appended
        count == IF api_name \in DOMAIN ctl.api_call_count
                 THEN ctl.api_call_count[api_name] ELSE 0
    IN [ctl EXCEPT !.call_history = history,
                   !.api_call_count =
                        [a \in DOMAIN @ \cup {api_name} |->
                            IF a = api_name THEN count + 1 ELSE @[a]]]

\* LifecycleController.register_phase_callback
register_phase_callback(ctl, phase, callback) ==
    [ctl EXCEPT !.phase_callbacks[phase] = Append(@, callback)]

\* A slip: the first callback that raises ends the loop and the exception
\* leaves set_phase.
RECURSIVE execute_phase_callbacks_abort(_, _)
execute_phase_callbacks_abort(callbacks, phase) ==
    IF callbacks = <<>> THEN [invoked |-> <<>>, raised |-> FALSE]
    ELSE LET callback == Head(callbacks)
             call == [id |-> callback.id, phase_seen |-> phase]
         IN IF callback.raises
            THEN [invoked |-> <<call>>, raised |-> TRUE]
            ELSE LET rest == execute_phase_callbacks_abort(Tail(callbacks), phase)
                 IN [invoked |-> <<call>> \o rest.invoked, raised |-> rest.raised]

\* LifecycleController._execute_phase_callbacks, run by set_phase once
\* _current_phase is `phase`: the calls made, each with the phase the
\* callback finds current, and whether an exception left the loop.
RECURSIVE execute_phase_callbacks(_, _)
execute_phase_callbacks(callbacks, phase) ==
    IF callbacks = <<>> THEN [invoked |-> <<>>, raised |-> FALSE]
    ELSE LET callback == Head(callbacks)
             call == [id |-> callback.id, phase_seen |-> phase]
             rest == execute_phase_callbacks(Tail(callbacks), phase)
         IN [invoked |-> <<call>> \o rest.invoked, raised |-> rest.raised]

\* No thread has a call in progress; the RLock (line 87) is free.
NoThreads == [owner |-> Nil, local |-> <<>>, started |-> 0]

\* The cache manager after construction (empty ma_cache, no date seen) and
\* no Data object.
NoStockData == [ma_cache |-> <<>>, cache_date |-> Nil, data |-> <<>>]

ControllerInit ==
    /\ current_phase = None
    /\ phase_executed = {}
    /\ controller = NewController("backtest")
    /\ call_log = <<>>

\* LifecycleController.set_phase(phase), called directly: the transition is
\* validated, the phase set and the callbacks of the phase run.
SetPhase(phase) ==
    LET r == set_phase(current_phase, phase_executed, phase)
        cb == IF r.raised THEN [invoked |-> <<>>, raised |-> FALSE]
              ELSE execute_phase_callbacks(controller.phase_callbacks[phase],
                                           r.phase)
    IN
    /\ current_phase' = r.phase
    /\ phase_executed' = r.executed
    /\ last' = [op |-> "set_phase", from |-> current_phase, to |-> phase,
                raised |-> r.raised \/ cb.raised, rejected |-> r.raised,
                callbacks_run |-> cb.invoked,
                executed_before |-> phase_executed,
                controller_before |-> controller]
    /\ UNCHANGED <<threads, stock_data, controller, call_log, portfolio, current_dt, cfg,
                   total_commission, dividends_paid, ops, last_read, run,
                   blotter>>

\* LifecycleController.validate_api_call(api_name)
ValidateApiCall(api_name) ==
    /\ last' = [op |-> "validate_api_call", api_name |-> api_name,
                result |-> validate_api_call(current_phase, api_name),
                before |-> [phase |-> current_phase,
                            executed |-> phase_executed,
                            call_history |-> controller.call_history]]
    /\ UNCHANGED <<threads, stock_data, current_phase, phase_executed, controller, call_log,
                   portfolio, current_dt, cfg, total_commission,
                   dividends_paid, ops, last_read, run, blotter>>

\* Context.is_api_allowed(api_name)
IsApiAllowed(api_name) ==
    /\ last' = [op |-> "is_api_allowed", api_name |-> api_name,
                result |-> is_api_allowed(current_phase, api_name)]
    /\ UNCHANGED <<threads, stock_data, current_phase, phase_executed, controller, call_log,
                   portfolio, current_dt, cfg, total_commission,
                   dividends_paid, ops, last_read, run, blotter>>

\* LifecycleController.record_api_call(api_name, success)
RecordApiCall(api_name, success) ==
    /\ controller' = record_api_call(controller, current_phase, api_name, success)
    /\ call_log' = Append(call_log, [api_name |-> api_name,
                                     at_phase |-> current_phase,
                                     success |-> success])
    /\ last' = [op |-> "record_api_call", api_name |-> api_name]
    /\ UNCHANGED <<threads, stock_data, current_phase, phase_executed, portfolio, current_dt, cfg,
                   total_commission, dividends_paid, ops, last_read, run,
                   blotter>>

\* LifecycleController.register_phase_callback(phase, callback)
RegisterPhaseCallback(phase, callback) ==
    /\ controller' = register_phase_callback(controller, phase, callback)
    /\ last' = [op |-> "register_phase_callback", phase |-> phase,
                executed_before |-> phase_executed]
    /\ UNCHANGED <<threads, stock_data, current_phase, phase_executed, call_log, portfolio,
                   current_dt, cfg, total_commission, dividends_paid, ops,
                   last_read, run, blotter>>

\* A slip: the counters survive the reset.
reset_keep_counters(ctl) == [ctl EXCEPT !.call_history = <<>>]

\* LifecycleController.reset on the history and the counters; the callbacks
\* and the mode are not assigned.
reset(ctl) == [ctl EXCEPT !.call_history = <<>>, !.api_call_count = <<>>]

Reset ==
    /\ current_phase' = None
    /\ phase_executed' = {}
    /\ controller' = reset(controller)
    /\ call_log' = <<>>
    /\ last' = [op |-> "reset", phase_before |-> current_phase,
                recorded_before |-> Len(controller.call_history),
                callbacks_before |-> controller.phase_callbacks,
                mode_before |-> controller.strategy_mode]
    /\ UNCHANGED <<threads, stock_data, portfolio, current_dt, cfg,
                   total_commission, dividends_paid, ops, last_read, run,
                   blotter>>

\* sum(d.values()) of a dictionary of counters.
RECURSIVE SumValues(_)
SumValues(d) ==
    IF DOMAIN d = {} THEN 0
    ELSE LET k == CHOOSE x \in DOMAIN d : TRUE
         IN d[k] + SumValues([x \in DOMAIN d \ {k} |-> d[x]])

\* LifecycleController.get_call_statistics: the counters summed, the failed
\* records of the retained history counted, and their quotient.
get_call_statistics(ctl) ==
    LET total_calls == SumValues(ctl.api_call_count)
        failed_calls == Cardinality({i \in 1..Len(ctl.call_history) :
                                        ~ctl.call_history[i].success})
    IN [total_api_calls |-> total_calls,
        failed_calls |-> failed_calls,
        success_rate |-> Q(total_calls - failed_calls,
                           IF total_calls > 1 THEN total_calls ELSE 1),
        history_size |-> Len(ctl.call_history)]

GetCallStatistics ==
    /\ last' = [op |-> "get_call_statistics",
                stats |-> get_call_statistics(controller)]
    /\ UNCHANGED <<threads, stock_data, current_phase, phase_executed,
                   controller, call_log, portfolio, current_dt, cfg,
                   total_commission, dividends_paid, ops, last_read, run,
                   blotter>>

(***************************************************************************)
(* Threads calling set_phase and record_api_call on one controller.  Each  *)
(* call is a sequence of steps on the shared fields, taken between the     *)
(* acquisition and the release of the controller's RLock.                  *)
(***************************************************************************)
NumThreads == 2
MaxThreadCalls == 4
Threads == 1..NumThreads
ThreadPhases == {INITIALIZE, BEFORE_TRADING_START, HANDLE_DATA}
Idle == [pc |-> "idle"]

\* A lock that excludes nobody.
rlock_acquirable_always(owner, t) == TRUE

\* RLock.acquire returns when no other thread owns the lock.
rlock_acquirable(owner, t) == owner = Nil \/ owner = Some(t)

Local(t, l) == [threads EXCEPT !.local[t] = l]
Released(t) == [threads EXCEPT !.owner = Nil, !.local[t] = Idle]

\* A thread enters set_phase(phase) and waits at `with self._lock`.
TCallSetPhase(t, phase) ==
    /\ threads.local[t].pc = "idle"
    /\ threads.started < MaxThreadCalls
    /\ threads' = [threads EXCEPT !.started = @ + 1,
                      !.local[t] = [pc |-> "lock", call |-> "set_phase",
                                    phase |-> phase]]
    /\ last' = [op |-> "t_call", thread |-> t]
    /\ UNCHANGED <<current_phase, phase_executed, controller, call_log,
                   stock_data, portfolio, current_dt, cfg, total_commission,
                   dividends_paid, ops, last_read, run, blotter>>

\* A thread enters record_api_call and waits at `with self._lock`.
TCallRecordApiCall(t, api_name, success) ==
    /\ threads.local[t].pc = "idle"
    /\ threads.started < MaxThreadCalls
    /\ threads' = [threads EXCEPT !.started = @ + 1,
                      !.local[t] = [pc |-> "lock", call |-> "record_api_call",
                                    api_name |-> api_name,
                                    success |-> success]]
    /\ last' = [op |-> "t_call", thread |-> t]
    /\ UNCHANGED <<current_phase, phase_executed, controller, call_log,
                   stock_data, portfolio, current_dt, cfg, total_commission,
                   dividends_paid, ops, last_read, run, blotter>>

\* with self._lock: the thread gets the lock.
TAcquire(t) ==
    /\ threads.local[t].pc = "lock"
    /\ rlock_acquirable(threads.owner, t)
    /\ threads' = [threads EXCEPT !.owner = Some(t),
                      !.local[t].pc = IF threads.local[t].call = "set_phase"
                                      THEN "validate" ELSE "build"]
    /\ last' = [op |-> "t_acquire", thread |-> t]
    /\ UNCHANGED <<current_phase, phase_executed, controller, call_log,
                   stock_data, portfolio, current_dt, cfg, total_commission,
                   dividends_paid, ops, last_read, run, blotter>>

\* set_phase: old_phase = self._current_phase and its validation; an invalid
\* transition raises, which leaves the with block.
TValidate(t) ==
    LET l == threads.local[t]
        ok == validate_phase_transition(current_phase, l.phase)
    IN
    /\ l.pc = "validate"
    /\ threads' = IF ok
                  THEN Local(t, [l EXCEPT !.pc = "assign"]
                                  @@ [old_phase |-> current_phase])
                  ELSE Released(t)
    /\ last' = [op |-> "t_validate", thread |-> t, raised |-> ~ok]
    /\ UNCHANGED <<current_phase, phase_executed, controller, call_log,
                   stock_data, portfolio, current_dt, cfg, total_commission,
                   dividends_paid, ops, last_read, run, blotter>>

\* set_phase: self._current_phase = phase.
TAssign(t) ==
    LET l == threads.local[t] IN
    /\ l.pc = "assign"
    /\ current_phase' = l.phase
    /\ threads' = Local(t, [l EXCEPT !.pc = "finish"])
    /\ last' = [op |-> "t_assign", thread |-> t, from |-> current_phase,
                validated_from |-> l.old_phase, to |-> l.phase]
    /\ UNCHANGED <<phase_executed, controller, call_log,
                   stock_data, portfolio, current_dt, cfg, total_commission,
                   dividends_paid, ops, last_read, run, blotter>>

\* set_phase: self._phase_executed.add(phase), the callbacks of the phase and
\* the end of the with block.
TFinish(t) ==
    LET l == threads.local[t] IN
    /\ l.pc = "finish"
    /\ phase_executed' = phase_executed \cup {l.phase}
    /\ threads' = Released(t)
    /\ last' = [op |-> "t_finish", thread |-> t,
                callbacks_run |->
                    execute_phase_callbacks(controller.phase_callbacks[l.phase],
                                            l.phase).invoked]
    /\ UNCHANGED <<current_phase, controller, call_log,
                   stock_data, portfolio, current_dt, cfg, total_commission,
                   dividends_paid, ops, last_read, run, blotter>>

\* record_api_call: the APICallRecord is built from self.current_phase_name.
TBuild(t) ==
    LET l == threads.local[t] IN
    /\ l.pc = "build"
    /\ threads' = Local(t, [l EXCEPT !.pc = "append"]
                             @@ [read_phase |-> current_phase])
    /\ last' = [op |-> "t_build", thread |-> t]
    /\ UNCHANGED <<current_phase, phase_executed, controller, call_log,
                   stock_data, portfolio, current_dt, cfg, total_commission,
                   dividends_paid, ops, last_read, run, blotter>>

\* record_api_call: the record is appended, the history trimmed, the counter
\* raised, and the with block ends.
TAppend(t) ==
    LET l == threads.local[t] IN
    /\ l.pc = "append"
    /\ controller' = record_api_call(controller, l.read_phase, l.api_name,
                                     l.success)
    /\ call_log' = Append(call_log, [api_name |-> l.api_name,
                                     at_phase |-> current_phase,
                                     success |-> l.success])
    /\ threads' = Released(t)
    /\ last' = [op |-> "t_append", thread |-> t,
                record_phase |-> recorded_phase(l.read_phase),
                phase_at_append |-> current_phase]
    /\ UNCHANGED <<current_phase, phase_executed,
                   stock_data, portfolio, current_dt, cfg, total_commission,
                   dividends_paid, ops, last_read, run, blotter>>


(***************************************************************************)
(* Market data (the external price source and dividend calendar)           *)
(***************************************************************************)
Symbols == {"AAA", "BBB"}

\* The trading calendar: day numbers with gaps, so that holding periods fall
\* on both sides of 30 and 365 days.
CalendarDates == <<1, 11, 45, 411, 412, 413, 414>>

\* stock_data_dict[stock].iloc[idx]['close'] for the date, Nil when the
\* stock has no row on that date.  AAA is suspended on day 45.
Close(stock, date) ==
    CASE stock = "AAA" /\ date = 1 -> Some(I(10))
      [] stock = "AAA" /\ date = 11 -> Some(I(20))
      [] stock = "AAA" /\ date = 45 -> Nil
      [] stock = "AAA" /\ date > 45 -> Some(I(10))
      [] stock = "BBB" /\ date = 11 -> Some(I(4))
      [] stock = "BBB" -> Some(I(2))
      [] OTHER -> Nil

\* data_context.dividend_cache[stock][date]: pre-tax dividend per share.
Dividend(stock, date) ==
    CASE stock = "AAA" /\ date \in {1, 11} -> Some(I(1))
      [] stock = "BBB" /\ date = 45 -> Some(Q(1, 2))
      [] OTHER -> Nil

(***************************************************************************)
(* Portfolio                                                               *)
(*                                                                         *)
(* A portfolio is a record: cash, positions (symbol -> amount, cost_basis, *)
(* defined on the held symbols only), lots (symbol -> sequence of lots,    *)
(* each date, amount, dividends_total), and the per-day value cache.       *)
(* Position.last_sale_price, market_value and enable_amount are written    *)
(* but never read by the operations modelled here and are left out.        *)
(***************************************************************************)
Lot(date, amount) == [date |-> date, amount |-> amount, dividends_total |-> Zero]

NewPortfolio(initial_capital) ==
    [cash |-> initial_capital,
     starting_cash |-> initial_capital,
     positions |-> [s \in {} |-> 0],
     lots |-> [s \in {} |-> <<>>],
     cached_value |-> Nil,
     cache_date |-> Nil]

invalidate_cache(pf) ==
    [pf EXCEPT !.cached_value = Nil, !.cache_date = Nil]

Put(f, k, v) == [x \in DOMAIN f \cup {k} |-> IF x = k THEN v ELSE f[x]]
Del(f, k) == [x \in DOMAIN f \ {k} |-> f[x]]

\* A slip: a buy into a held symbol adds the shares to the newest lot.
add_position_merge(pf, stock, amount, price, date) ==
    IF stock \notin DOMAIN pf.positions
    THEN invalidate_cache(
            [pf EXCEPT !.positions = Put(@, stock,
                            [amount |-> amount, cost_basis |-> price]),
                       !.lots = Put(@, stock, <<Lot(date, amount)>>)])
    ELSE LET position == pf.positions[stock]
             new_amount == position.amount + amount
             new_cost == RDivInt(RAdd(RMul(I(position.amount), position.cost_basis),
                                      RMul(I(amount), price)), new_amount)
             n == Len(pf.lots[stock])
         IN invalidate_cache(
            [pf EXCEPT !.positions[stock] =
                            [amount |-> new_amount, cost_basis |-> new_cost],
                       !.lots[stock][n].amount = @ + amount])

\* A slip: a buy into a held symbol takes the new price as cost basis.
add_position_last_price(pf, stock, amount, price, date) ==
    IF stock \notin DOMAIN pf.positions
    THEN invalidate_cache(
            [pf EXCEPT !.positions = Put(@, stock,
                            [amount |-> amount, cost_basis |-> price]),
                       !.lots = Put(@, stock, <<Lot(date, amount)>>)])
    ELSE LET position == pf.positions[stock]
             new_amount == position.amount + amount
         IN invalidate_cache(
            [pf EXCEPT !.positions[stock] =
                            [amount |-> new_amount, cost_basis |-> price],
                       !.lots[stock] = Append(@, Lot(date, amount))])

\* A slip: the value cache is not cleared.
add_position_keep_cache(pf, stock, amount, price, date) ==
    IF stock \notin DOMAIN pf.positions
    THEN [pf EXCEPT !.positions = Put(@, stock,
                            [amount |-> amount, cost_basis |-> price]),
                    !.lots = Put(@, stock, <<Lot(date, amount)>>)]
    ELSE LET position == pf.positions[stock]
             new_amount == position.amount + amount
             new_cost == RDivInt(RAdd(RMul(I(position.amount), position.cost_basis),
                                      RMul(I(amount), price)), new_amount)
         IN [pf EXCEPT !.positions[stock] =
                            [amount |-> new_amount, cost_basis |-> new_cost],
                       !.lots[stock] = Append(@, Lot(date, amount))]

\* Portfolio.add_position
add_position(pf, stock, amount, price, date) ==
    IF stock \notin DOMAIN pf.positions
    THEN invalidate_cache(
            [pf EXCEPT !.positions = Put(@, stock,
                            [amount |-> amount, cost_basis |-> price]),
                       !.lots = Put(@, stock, <<Lot(date, amount)>>)])
    ELSE LET position == pf.positions[stock]
             new_amount == position.amount + amount
             new_cost == RDivInt(RAdd(RMul(I(position.amount), position.cost_basis),
                                      RMul(I(amount), price)), new_amount)
         IN invalidate_cache(
            [pf EXCEPT !.positions[stock] =
                            [amount |-> new_amount, cost_basis |-> new_cost],
                       !.lots[stock] = Append(@, Lot(date, amount))])

\* A slip: every holding period over 30 days is taxed at 10%.
actual_rate_flat(holding_days) ==
    IF holding_days <= 30 THEN Q(20, 100) ELSE Q(10, 100)

\* A slip: a holding of more than 30 days is taxed above the withheld rate.
actual_rate_surcharge(holding_days) ==
    IF holding_days <= 30 THEN Q(20, 100) ELSE Q(30, 100)

\* The dividend tax rate for a holding period, in percent.
actual_rate(holding_days) ==
    IF holding_days <= 30 THEN Q(20, 100)
    ELSE IF holding_days <= 365 THEN Q(10, 100)
    ELSE Zero

Min(a, b) == IF a <= b THEN a ELSE b

RemoveAt(seq, i) == SubSeq(seq, 1, i - 1) \o SubSeq(seq, i + 1, Len(seq))

\* A slip: the newest lot is consumed first.
RECURSIVE dividend_tax_lifo(_, _, _, _, _)
dividend_tax_lifo(lots, i, remaining, tax_adjustment, sell_date) ==
    IF ~(Len(lots) >= 1 /\ remaining > 0)
    THEN [lots |-> lots, tax_adjustment |-> tax_adjustment]
    ELSE LET k == Len(lots)
             lot == lots[k]
             holding_days == sell_date - lot.date
             sell_qty == Min(remaining, lot.amount)
             ratio == Q(sell_qty, lot.amount)
             lot_div_total == lot.dividends_total
             tax == RAdd(tax_adjustment,
                         RMul(RMul(lot_div_total, ratio),
                              RSub(actual_rate(holding_days), Q(20, 100))))
         IN IF lot.amount <= remaining
            THEN dividend_tax_lifo(RemoveAt(lots, k), i, remaining - lot.amount,
                                   tax, sell_date)
            ELSE [lots |-> [lots EXCEPT ![k] =
                        [date |-> lot.date,
                         amount |-> lot.amount - remaining,
                         dividends_total |->
                            RMul(lot_div_total, RSub(I(1), ratio))]],
                  tax_adjustment |-> tax]

\* A slip: a partly sold lot keeps its whole dividend total.
RECURSIVE dividend_tax_keep_total(_, _, _, _, _)
dividend_tax_keep_total(lots, i, remaining, tax_adjustment, sell_date) ==
    IF ~(i <= Len(lots) /\ remaining > 0)
    THEN [lots |-> lots, tax_adjustment |-> tax_adjustment]
    ELSE LET lot == lots[i]
             holding_days == sell_date - lot.date
             sell_qty == Min(remaining, lot.amount)
             ratio == Q(sell_qty, lot.amount)
             lot_div_total == lot.dividends_total
             tax == RAdd(tax_adjustment,
                         RMul(RMul(lot_div_total, ratio),
                              RSub(actual_rate(holding_days), Q(20, 100))))
         IN IF lot.amount <= remaining
            THEN dividend_tax_keep_total(RemoveAt(lots, i), i,
                                         remaining - lot.amount, tax, sell_date)
            ELSE dividend_tax_keep_total(
                    [lots EXCEPT ![i] =
                        [date |-> lot.date,
                         amount |-> lot.amount - remaining,
                         dividends_total |-> lot_div_total]],
                    i + 1, 0, tax, sell_date)

\* The loop of _calculate_dividend_tax from index i (1-based here) with
\* `remaining` shares left to sell: the lots and the adjustment at its end.
RECURSIVE dividend_tax_loop(_, _, _, _, _)
dividend_tax_loop(lots, i, remaining, tax_adjustment, sell_date) ==
    IF ~(i <= Len(lots) /\ remaining > 0)
    THEN [lots |-> lots, tax_adjustment |-> tax_adjustment]
    ELSE LET lot == lots[i]
             holding_days == sell_date - lot.date
             sell_qty == Min(remaining, lot.amount)
             ratio == Q(sell_qty, lot.amount)
             lot_div_total == lot.dividends_total
             tax == RAdd(tax_adjustment,
                         RMul(RMul(lot_div_total, ratio),
                              RSub(actual_rate(holding_days), Q(20, 100))))
         IN IF lot.amount <= remaining
            THEN dividend_tax_loop(RemoveAt(lots, i), i, remaining - lot.amount,
                                   tax, sell_date)
            ELSE dividend_tax_loop(
                    [lots EXCEPT ![i] =
                        [date |-> lot.date,
                         amount |-> lot.amount - remaining,
                         dividends_total |->
                            RMul(lot_div_total, RSub(I(1), ratio))]],
                    i + 1, 0, tax, sell_date)

\* Portfolio._calculate_dividend_tax: the portfolio with the lots of `stock`
\* consumed in place, and the tax adjustment.
calculate_dividend_tax(pf, stock, amount, sell_date) ==
    IF stock \notin DOMAIN pf.lots
    THEN [pf |-> pf, tax_adjustment |-> Zero]
    ELSE LET r == dividend_tax_loop(pf.lots[stock], 1, amount, Zero, sell_date)
         IN [pf |-> [pf EXCEPT !.lots[stock] = r.lots],
             tax_adjustment |-> r.tax_adjustment]

\* A slip: a partial sale lowers the position but leaves the lots alone.
remove_position_keep_lots(pf, stock, amount, sell_date) ==
    IF stock \notin DOMAIN pf.positions
    THEN [pf |-> pf, tax_adjustment |-> Zero, raised |-> FALSE]
    ELSE LET position == pf.positions[stock] IN
         IF amount > position.amount
         THEN [pf |-> pf, tax_adjustment |-> Zero, raised |-> TRUE]
         ELSE LET t == calculate_dividend_tax(pf, stock, amount, sell_date)
                  pf2 == IF position.amount = amount
                         THEN [pf EXCEPT !.positions = Del(@, stock),
                                         !.lots = Del(@, stock)]
                         ELSE [pf EXCEPT !.positions[stock].amount = @ - amount]
              IN [pf |-> invalidate_cache(pf2),
                  tax_adjustment |-> t.tax_adjustment, raised |-> FALSE]

\* Portfolio.remove_position: the new portfolio, the returned tax adjustment,
\* and whether ValueError was raised (the portfolio is then unchanged).
remove_position(pf, stock, amount, sell_date) ==
    IF stock \notin DOMAIN pf.positions
    THEN [pf |-> pf, tax_adjustment |-> Zero, raised |-> FALSE]
    ELSE LET position == pf.positions[stock] IN
         IF amount > position.amount
         THEN [pf |-> pf, tax_adjustment |-> Zero, raised |-> TRUE]
         ELSE LET t == calculate_dividend_tax(pf, stock, amount, sell_date)
                  pf2 == IF position.amount = amount
                         THEN [t.pf EXCEPT !.positions = Del(@, stock),
                                           !.lots = Del(@, stock)]
                         ELSE [t.pf EXCEPT !.positions[stock].amount = @ - amount]
              IN [pf |-> invalidate_cache(pf2),
                  tax_adjustment |-> t.tax_adjustment, raised |-> FALSE]

\* Portfolio.add_dividend
add_dividend(pf, stock, dividend_per_share) ==
    IF stock \in DOMAIN pf.lots
    THEN LET lots == pf.lots[stock] IN
         [pf EXCEPT !.lots[stock] =
            [k \in 1..Len(lots) |->
                [lots[k] EXCEPT !.dividends_total =
                    RAdd(@, RMul(dividend_per_share, I(lots[k].amount)))]]]
    ELSE pf

RECURSIVE RSum(_, _)
\* The sum of f[x] over the set S
RSum(f, S) ==
    IF S = {} THEN Zero
    ELSE LET x == CHOOSE y \in S : TRUE IN RAdd(f[x], RSum(f, S \ {x}))

\* The price portfolio_value marks a position at: the close of the date when
\* it is a valid price, else cost_basis.
mark_price(position, stock, date) ==
    LET price == Close(stock, date) IN
    IF price # Nil /\ Val(price).n > 0 THEN Val(price) ELSE position.cost_basis

\* Portfolio.portfolio_value (with _context set): the value returned and the
\* portfolio after the read (the cache is filled).
portfolio_value(pf, date) ==
    IF Some(date) = pf.cache_date /\ pf.cached_value # Nil
    THEN [value |-> Val(pf.cached_value), pf |-> pf]
    ELSE LET held == {s \in DOMAIN pf.positions : pf.positions[s].amount > 0}
             worth == [s \in held |->
                        RMul(I(pf.positions[s].amount),
                             mark_price(pf.positions[s], s, date))]
             result == RAdd(pf.cash, RSum(worth, held))
         IN [value |-> result,
             pf |-> [pf EXCEPT !.cached_value = Some(result),
                                !.cache_date = Some(date)]]


(***************************************************************************)
(* OrderProcessor                                                          *)
(***************************************************************************)
\* get_execution_price: Nil when no price can be had, else Some(price)
get_execution_price(c, date, stock, limit_price, is_buy) ==
    LET base == IF limit_price # Nil THEN limit_price
                ELSE LET close == Close(stock, date) IN
                     IF close # Nil /\ Val(close).n > 0 THEN close ELSE Nil
    IN IF base = Nil THEN Nil
       ELSE LET base_price == Val(base)
                slippage_amount ==
                    IF c.slippage.n > 0
                    THEN RDivInt(RMul(base_price, c.slippage), 2)
                    ELSE IF c.fixed_slippage.n > 0
                    THEN RDivInt(c.fixed_slippage, 2)
                    ELSE Zero
            IN Some(IF is_buy THEN RAdd(base_price, slippage_amount)
                    ELSE RSub(base_price, slippage_amount))

\* A slip: nothing is refused.
check_limit_status_open(delta, limit_status) == TRUE

\* check_limit_status: TRUE when the trade may go ahead
check_limit_status(delta, limit_status) ==
    IF delta > 0 /\ limit_status = 1 THEN FALSE
    ELSE IF delta < 0 /\ limit_status = -1 THEN FALSE
    ELSE TRUE

\* The exchange's transfer fee rate, 0.0000487
TransferFeeRate == Q(487, 10000000)

\* A slip: the minimum commission is charged at ratio 0 too.
calculate_commission_floor(c, amount, price, is_sell) ==
    IF c.commission_ratio.n = 0 THEN c.min_commission
    ELSE LET value == RMul(I(amount), price)
             broker_fee == RMax(RMul(value, c.commission_ratio), c.min_commission)
             transfer_fee == RMul(value, TransferFeeRate)
             commission == RAdd(broker_fee, transfer_fee)
         IN IF is_sell THEN RAdd(commission, RMul(value, c.tax_rate))
            ELSE commission

\* calculate_commission
calculate_commission(c, amount, price, is_sell) ==
    IF c.commission_ratio.n = 0 THEN Zero
    ELSE LET value == RMul(I(amount), price)
             broker_fee == RMax(RMul(value, c.commission_ratio), c.min_commission)
             transfer_fee == RMul(value, TransferFeeRate)
             commission == RAdd(broker_fee, transfer_fee)
         IN IF is_sell THEN RAdd(commission, RMul(value, c.tax_rate))
            ELSE commission

\* A slip: the sufficiency test leaves the commission out.
execute_buy_cost_only(c, pf, tc, date, stock, amount, price) ==
    LET cost == RMul(I(amount), price)
        commission == calculate_commission(c, amount, price, FALSE)
        total_cost == RAdd(cost, commission)
    IN IF RLt(pf.cash, cost)
       THEN [pf |-> pf, total_commission |-> tc, ok |-> FALSE,
             raised |-> FALSE]
       ELSE [pf |-> add_position([pf EXCEPT !.cash = RSub(@, total_cost)],
                                 stock, amount, price, date),
             total_commission |-> RAdd(tc, commission),
             ok |-> TRUE, raised |-> FALSE]

\* execute_buy: the portfolio and context.total_commission after the call,
\* and the value returned.
execute_buy(c, pf, tc, date, stock, amount, price) ==
    LET cost == RMul(I(amount), price)
        commission == calculate_commission(c, amount, price, FALSE)
        total_cost == RAdd(cost, commission)
    IN IF RLt(pf.cash, total_cost)
       THEN [pf |-> pf, total_commission |-> tc, ok |-> FALSE,
             raised |-> FALSE]
       ELSE [pf |-> add_position([pf EXCEPT !.cash = RSub(@, total_cost)],
                                 stock, amount, price, date),
             total_commission |-> RAdd(tc, commission),
             ok |-> TRUE, raised |-> FALSE]

\* A slip: the holding is not compared with the quantity sold.
execute_sell_unchecked(c, pf, tc, date, stock, amount, price) ==
    IF stock \notin DOMAIN pf.positions
    THEN [pf |-> pf, total_commission |-> tc, ok |-> FALSE, raised |-> FALSE]
    ELSE LET revenue == RMul(I(amount), price)
             commission == calculate_commission(c, amount, price, TRUE)
             r == remove_position(pf, stock, amount, date)
             net_revenue == RSub(RSub(revenue, commission), r.tax_adjustment)
         IN IF r.raised
            THEN [pf |-> pf, total_commission |-> tc, ok |-> FALSE,
                  raised |-> TRUE]
            ELSE [pf |-> [r.pf EXCEPT !.cash = RAdd(@, net_revenue)],
                  total_commission |-> RAdd(tc, commission),
                  ok |-> TRUE, raised |-> FALSE]

\* execute_sell; raised: the ValueError of remove_position left the call
execute_sell(c, pf, tc, date, stock, amount, price) ==
    IF stock \notin DOMAIN pf.positions
    THEN [pf |-> pf, total_commission |-> tc, ok |-> FALSE, raised |-> FALSE]
    ELSE IF pf.positions[stock].amount < amount
    THEN [pf |-> pf, total_commission |-> tc, ok |-> FALSE, raised |-> FALSE]
    ELSE LET revenue == RMul(I(amount), price)
             commission == calculate_commission(c, amount, price, TRUE)
             r == remove_position(pf, stock, amount, date)
             net_revenue == RSub(RSub(revenue, commission), r.tax_adjustment)
         IN IF r.raised
            THEN [pf |-> pf, total_commission |-> tc, ok |-> FALSE,
                  raised |-> TRUE]
            ELSE [pf |-> [r.pf EXCEPT !.cash = RAdd(@, net_revenue)],
                  total_commission |-> RAdd(tc, commission),
                  ok |-> TRUE, raised |-> FALSE]

\* A slip: a zero delta is not told apart and goes on to the limit check
\* and to execute_sell.
process_order_zero_delta(c, pf, tc, date, stock, target_amount, limit_price, limit_status) ==
    LET price == get_execution_price(c, date, stock, limit_price, TRUE)
        current_amount == IF stock \in DOMAIN pf.positions
                          THEN pf.positions[stock].amount ELSE 0
        delta == target_amount - current_amount
        unchanged == [pf |-> pf, total_commission |-> tc, price |-> price,
                      delta |-> delta, raised |-> FALSE]
    IN IF price = Nil THEN unchanged @@ [ok |-> FALSE, step |-> "no_price"]
       ELSE IF ~check_limit_status(delta, limit_status)
       THEN unchanged @@ [ok |-> FALSE, step |-> "limit"]
       ELSE IF delta > 0
       THEN execute_buy(c, pf, tc, date, stock, delta, Val(price))
                @@ [price |-> price, delta |-> delta, step |-> "buy"]
       ELSE execute_sell(c, pf, tc, date, stock, Abs(delta), Val(price))
                @@ [price |-> price, delta |-> delta, step |-> "sell"]

\* process_order: the portfolio and total_commission after the call, the
\* value returned, and the price and delta it worked with.
process_order(c, pf, tc, date, stock, target_amount, limit_price, limit_status) ==
    LET price == get_execution_price(c, date, stock, limit_price, TRUE)
        current_amount == IF stock \in DOMAIN pf.positions
                          THEN pf.positions[stock].amount ELSE 0
        delta == target_amount - current_amount
        unchanged == [pf |-> pf, total_commission |-> tc, price |-> price,
                      delta |-> delta, raised |-> FALSE]
    IN IF price = Nil THEN unchanged @@ [ok |-> FALSE, step |-> "no_price"]
       ELSE IF delta = 0 THEN unchanged @@ [ok |-> TRUE, step |-> "no_trade"]
       ELSE IF ~check_limit_status(delta, limit_status)
       THEN unchanged @@ [ok |-> FALSE, step |-> "limit"]
       ELSE IF delta > 0
       THEN execute_buy(c, pf, tc, date, stock, delta, Val(price))
                @@ [price |-> price, delta |-> delta, step |-> "buy"]
       ELSE execute_sell(c, pf, tc, date, stock, Abs(delta), Val(price))
                @@ [price |-> price, delta |-> delta, step |-> "sell"]

(***************************************************************************)
(* StrategyExecutionEngine._process_dividend_events                        *)
(***************************************************************************)
\* The flat rate withheld when a dividend is credited, 20%
PreTaxRate == Q(20, 100)

\* A slip: the dividend is credited before tax.
dividend_event_gross(pf, stock, date) ==
    LET position == pf.positions[stock] IN
    IF position.amount <= 0 \/ Dividend(stock, date) = Nil THEN pf
    ELSE LET before_tax == Val(Dividend(stock, date))
             total_before_tax == RMul(before_tax, I(position.amount))
         IN IF total_before_tax.n > 0
            THEN add_dividend(
                    invalidate_cache([pf EXCEPT !.cash = RAdd(@, total_before_tax)]),
                    stock, before_tax)
            ELSE pf

\* The body of the loop for one held symbol
dividend_event(pf, stock, date) ==
    LET position == pf.positions[stock] IN
    IF position.amount <= 0 \/ Dividend(stock, date) = Nil THEN pf
    ELSE LET before_tax == Val(Dividend(stock, date))
             after_tax == RMul(before_tax, RSub(I(1), PreTaxRate))
             total_after_tax == RMul(after_tax, I(position.amount))
         IN IF total_after_tax.n > 0
            THEN add_dividend(
                    invalidate_cache([pf EXCEPT !.cash = RAdd(@, total_after_tax)]),
                    stock, before_tax)
            ELSE pf

RECURSIVE dividend_events(_, _, _)
\* The loop over the held symbols in `todo`
dividend_events(pf, todo, date) ==
    IF todo = {} THEN pf
    ELSE LET stock == CHOOSE s \in todo : TRUE IN
         dividend_events(dividend_event(pf, stock, date), todo \ {stock}, date)

process_dividend_events(pf, date) ==
    dividend_events(pf, DOMAIN pf.positions, date)

(***************************************************************************)
(* Blotter.  open_orders is the list of the ids of the orders open, orders *)
(* the Order objects created so far (the strategy keeps them), by id.      *)
(***************************************************************************)
\* The day's traded volume, and the limit state api.check_limit reports
\* (1 limit-up, -1 limit-down, 0 neither).
Volume(stock, date) ==
    CASE stock = "AAA" /\ date = 11 -> 2
      [] stock = "AAA" -> 1000
      [] stock = "BBB" /\ date = 1 -> 800
      [] OTHER -> 200

LimitStatus(stock, date) ==
    CASE stock = "BBB" /\ date = 11 -> 1
      [] stock = "BBB" /\ date = 45 -> -1
      [] OTHER -> 0

NewBlotter == [open_orders |-> <<>>, order_id_counter |-> 0,
               orders |-> [id \in {} |-> 0]]

\* Order(id, symbol, amount, dt, limit=None): filled 0, status '0'
NewOrder(id, symbol, amount, dt) ==
    [id |-> id, symbol |-> symbol, amount |-> amount, dt |-> dt,
     filled |-> 0, status |-> "0"]

\* Blotter.create_order
create_order(bl, stock, amount, dt) ==
    LET id == bl.order_id_counter + 1 IN
    [bl EXCEPT !.order_id_counter = id,
               !.open_orders = Append(@, id),
               !.orders = Put(@, id, NewOrder(id, stock, amount, dt))]

\* list.remove(order)
Remove(seq, x) == SelectSeq(seq, LAMBDA y : y # x)

\* A slip: the cancelled order stays in open_orders.
cancel_order_keep_open(bl, id) ==
    IF \E i \in 1..Len(bl.open_orders) : bl.open_orders[i] = id
    THEN [bl |-> [bl EXCEPT !.orders[id].status = "cancelled"], ok |-> TRUE]
    ELSE [bl |-> bl, ok |-> FALSE]

\* Blotter.cancel_order: the blotter after the call and the value returned
cancel_order(bl, id) ==
    IF \E i \in 1..Len(bl.open_orders) : bl.open_orders[i] = id
    THEN [bl |-> [bl EXCEPT !.open_orders = Remove(@, id),
                            !.orders[id].status = "cancelled"],
          ok |-> TRUE]
    ELSE [bl |-> bl, ok |-> FALSE]

\* int(daily_volume * volume_ratio)
max_allowed(c, stock, date) ==
    LET x == RMul(I(Volume(stock, date)), c.volume_ratio) IN x.n \div x.d

\* The body of the loop of process_orders for one order: the blotter, the
\* portfolio and the list of executed orders after it, and with each order
\* executed the number of shares it moved (actual_amount bought, sell_qty
\* sold).
process_one_order(c, st, id, date) ==
    LET bl == st.bl
        pf == st.pf
        order == bl.orders[id]
        close == Close(order.symbol, date)
        removed == [bl EXCEPT !.open_orders = Remove(@, id)]
        failed == [st EXCEPT !.bl = [removed EXCEPT !.orders[id].status = "failed"]]
        capped == c.limit_mode = "LIMIT"
                    /\ Abs(order.amount) > max_allowed(c, order.symbol, date)
        actual_amount ==
            IF capped
            THEN IF order.amount > 0 THEN max_allowed(c, order.symbol, date)
                 ELSE 0 - max_allowed(c, order.symbol, date)
            ELSE order.amount
        limit_status == LimitStatus(order.symbol, date)
    IN IF close = Nil \/ Val(close).n <= 0 THEN st
       ELSE IF capped /\ max_allowed(c, order.symbol, date) <= 0 THEN failed
       ELSE IF order.amount > 0 /\ limit_status = 1 THEN failed
       ELSE IF order.amount < 0 /\ limit_status = -1 THEN failed
       ELSE IF actual_amount > 0
       THEN LET cost == RMul(I(actual_amount), Val(close)) IN
            IF RLe(cost, pf.cash)
            THEN [bl |-> [removed EXCEPT !.orders[id].status = "filled",
                                         !.orders[id].filled = actual_amount],
                  pf |-> add_position([pf EXCEPT !.cash = RSub(@, cost)],
                                      order.symbol, actual_amount, Val(close),
                                      date),
                  executed |-> Append(st.executed, id),
                  traded |-> Append(st.traded,
                                    [id |-> id, shares |-> actual_amount])]
            ELSE [st EXCEPT !.bl = removed]
       ELSE IF actual_amount < 0
       THEN IF order.symbol \in DOMAIN pf.positions
            THEN LET sell_qty == pf.positions[order.symbol].amount
                     r == remove_position(pf, order.symbol, sell_qty, date)
                     sell_revenue == RMul(I(sell_qty), Val(close))
                 IN [bl |-> [removed EXCEPT !.orders[id].status = "filled",
                                            !.orders[id].filled = actual_amount],
                     pf |-> [r.pf EXCEPT !.cash = RAdd(@, sell_revenue)],
                     executed |-> Append(st.executed, id),
                     traded |-> Append(st.traded,
                                       [id |-> id, shares |-> sell_qty])]
            ELSE [st EXCEPT !.bl = removed]
       ELSE st

RECURSIVE process_orders_loop(_, _, _, _)
\* for order in self.open_orders[:]
process_orders_loop(c, st, todo, date) ==
    IF todo = <<>> THEN st
    ELSE process_orders_loop(c, process_one_order(c, st, Head(todo), date),
                             Tail(todo), date)

\* Blotter.process_orders(portfolio, current_dt)
process_orders(c, bl, pf, date) ==
    process_orders_loop(c, [bl |-> bl, pf |-> pf, executed |-> <<>>,
                            traded |-> <<>>],
                        bl.open_orders, date)

(***************************************************************************)
(* StrategyExecutionEngine: the state of a run_backtest call.  pc is the   *)
(* place the call has reached, func the lifecycle function _safe_call is   *)
(* working on, day the index into date_range of the current iteration,     *)
(* phase_log every set_phase call made (phase, accepted, day), fatal the   *)
(* callback failure that ended the run, ate_raised the days whose          *)
(* after_trading_end callback raised.                                      *)
(***************************************************************************)
NewEngine(strategy_functions, date_range) ==
    [pc |-> "idle", func |-> None, day |-> 0, date_range |-> date_range,
     strategy_functions |-> strategy_functions, is_running |-> FALSE,
     result |-> "none", phase_log |-> <<>>, fatal |-> Nil, ate_raised |-> {},
     prev_portfolio_value |-> Nil]

NoEngine == NewEngine({}, <<>>)

NoOp == [op |-> "none"]

\* The ledger of a context created with `cash`, on the first calendar day.
LedgerInit(cash) ==
    /\ portfolio = NewPortfolio(cash)
    /\ current_dt = CalendarDates[1]
    /\ total_commission = Zero
    /\ dividends_paid = FALSE
    /\ last_read = Nil
    /\ blotter = NewBlotter
    /\ ops = 0

DefaultConfig ==
    [commission_ratio |-> Q(3, 10000), min_commission |-> I(5),
     tax_rate |-> Q(1, 1000), slippage |-> Zero, fixed_slippage |-> Zero]

InitPhase ==
    /\ ControllerInit
    /\ threads = NoThreads
    /\ stock_data = NoStockData
    /\ LedgerInit(Zero)
    /\ cfg = DefaultConfig
    /\ run = NoEngine
    /\ last = NoOp


(***************************************************************************)
(* The ledger driven directly: Portfolio.add_position, remove_position,    *)
(* add_dividend and portfolio_value, and the simulated date moving on.     *)
(***************************************************************************)
MaxLedgerOps == 3
MaxLedgerDays == 3

BuyAmounts == {50, 100}
SellAmounts == {20, 50, 120}
BuyPrices(stock) == IF stock = "AAA" THEN {I(10), I(20)} ELSE {I(2)}
DividendInputs == {I(1)}

LAddPosition(stock, amount, price) ==
    /\ ops < MaxLedgerOps
    /\ portfolio' = add_position(portfolio, stock, amount, price, current_dt)
    /\ ops' = ops + 1
    /\ last' = [op |-> "add_position", stock |-> stock, amount |-> amount,
                price |-> price, before |-> portfolio]
    /\ UNCHANGED <<threads, stock_data, controller, call_log, current_phase, phase_executed, current_dt, cfg,
                   total_commission, dividends_paid,
                   last_read, run,
                   blotter>>

LRemovePosition(stock, amount) ==
    /\ ops < MaxLedgerOps
    /\ LET r == remove_position(portfolio, stock, amount, current_dt) IN
        /\ portfolio' = r.pf
        /\ last' = [op |-> "remove_position", stock |-> stock,
                    amount |-> amount, raised |-> r.raised,
                    tax_adjustment |-> r.tax_adjustment, before |-> portfolio]
    /\ ops' = ops + 1
    /\ UNCHANGED <<threads, stock_data, controller, call_log, current_phase, phase_executed, current_dt, cfg,
                   total_commission, dividends_paid,
                   last_read, run,
                   blotter>>

LAddDividend(stock, dividend_per_share) ==
    /\ ops < MaxLedgerOps
    /\ portfolio' = add_dividend(portfolio, stock, dividend_per_share)
    /\ ops' = ops + 1
    /\ last' = [op |-> "add_dividend", stock |-> stock,
                dividend_per_share |-> dividend_per_share, before |-> portfolio]
    /\ UNCHANGED <<threads, stock_data, controller, call_log, current_phase, phase_executed, current_dt, cfg,
                   total_commission, dividends_paid,
                   last_read, run,
                   blotter>>

\* A read of Portfolio.portfolio_value
ReadPortfolioValue ==
    /\ LET r == portfolio_value(portfolio, current_dt) IN
        /\ portfolio' = r.pf
        /\ last_read' = Some([value |-> r.value, date |-> current_dt])
        /\ last' = [op |-> "portfolio_value", value |-> r.value,
                    before |-> portfolio, prev_read |-> last_read]
    /\ UNCHANGED <<threads, stock_data, controller, call_log, current_phase, phase_executed, current_dt, cfg,
                   total_commission, dividends_paid, ops, run,
                   blotter>>

DayIndex(date) == CHOOSE i \in 1..Len(CalendarDates) : CalendarDates[i] = date

\* context.current_dt = the next trading day
AdvanceDate ==
    /\ DayIndex(current_dt) < MaxLedgerDays
    /\ current_dt' = CalendarDates[DayIndex(current_dt) + 1]
    /\ last' = [op |-> "set_date", before |-> portfolio]
    /\ UNCHANGED <<threads, stock_data, controller, call_log, current_phase, phase_executed, portfolio, cfg,
                   total_commission, dividends_paid, ops,
                   last_read, run,
                   blotter>>

InitLedger ==
    /\ ControllerInit
    /\ threads = NoThreads
    /\ stock_data = NoStockData
    /\ LedgerInit(I(1000))
    /\ cfg = DefaultConfig
    /\ run = NoEngine
    /\ last = NoOp

NextLedger ==
    \/ \E stock \in Symbols, amount \in BuyAmounts :
         \E price \in BuyPrices(stock) : LAddPosition(stock, amount, price)
    \/ \E stock \in Symbols, amount \in SellAmounts :
         LRemovePosition(stock, amount)
    \/ \E stock \in Symbols, d \in DividendInputs : LAddDividend(stock, d)
    \/ ReadPortfolioValue
    \/ AdvanceDate

SpecLedger == InitLedger /\ [][NextLedger]_vars

(***************************************************************************)
(* The ledger driven through OrderProcessor.process_order, with the        *)
(* engine's dividend events (once a day), reads of the portfolio value and *)
(* the date moving on.                                                     *)
(***************************************************************************)
MaxOrderOps == 2
MaxOrderDays == 4

NoFeeConfig ==
    [commission_ratio |-> Zero, min_commission |-> I(5),
     tax_rate |-> Q(1, 1000), slippage |-> Zero, fixed_slippage |-> Zero]

SlippageConfig ==
    [commission_ratio |-> Zero, min_commission |-> I(5),
     tax_rate |-> Q(1, 1000), slippage |-> Q(1, 1000), fixed_slippage |-> Zero]

FixedSlippageConfig ==
    [commission_ratio |-> Zero, min_commission |-> I(5),
     tax_rate |-> Q(1, 1000), slippage |-> Zero, fixed_slippage |-> Q(2, 10)]

\* The accounts explored: initial capital and configuration.
Accounts ==
    {[cash |-> I(8), cfg |-> DefaultConfig],
     [cash |-> I(30000), cfg |-> DefaultConfig],
     [cash |-> I(3000), cfg |-> NoFeeConfig],
     [cash |-> I(3000), cfg |-> SlippageConfig],
     [cash |-> I(3000), cfg |-> FixedSlippageConfig]}

Order(stock, target_amount, limit_price, limit_status) ==
    [stock |-> stock, target_amount |-> target_amount,
     limit_price |-> limit_price, limit_status |-> limit_status]

\* The orders a strategy places on each account: single shares on the small
\* account, board lots on the others, sized to the capital (which also keeps
\* every amount of money within 32-bit integers).
OrderMenu ==
    IF RLt(portfolio.starting_cash, I(100))
    THEN {Order("BBB", 1, Nil, 0), Order("BBB", 2, Nil, 0),
          Order("BBB", 0, Nil, 0), Order("BBB", 0, Some(I(1)), 0)}
    ELSE IF cfg = DefaultConfig
    THEN {Order("AAA", 1000, Nil, 0), Order("AAA", 2000, Nil, 0),
          Order("AAA", 0, Nil, 0), Order("AAA", 1000, Nil, 1),
          Order("AAA", 0, Nil, -1), Order("BBB", 1000, Nil, 0)}
    ELSE IF cfg = NoFeeConfig
    THEN {Order("AAA", 100, Nil, 0), Order("AAA", 200, Nil, 0),
          Order("AAA", 0, Nil, 0), Order("AAA", 100, Nil, 1),
          Order("AAA", 100, Nil, -1), Order("AAA", 0, Nil, -1),
          Order("AAA", 0, Nil, 1), Order("AAA", 100, Some(I(3)), 0),
          Order("BBB", 100, Nil, 0), Order("BBB", 0, Nil, 0),
          Order("BBB", -100, Nil, 0)}
    ELSE {Order("AAA", 100, Nil, 0), Order("AAA", 0, Nil, 0),
          Order("AAA", 100, Some(I(3)), 0), Order("AAA", 50, Some(I(3)), 0)}

\* An order placed by a callback of the day, which all run before the day's
\* dividend events.
OProcessOrder(o) ==
    /\ ops < MaxOrderOps
    /\ ~dividends_paid
    /\ LET r == process_order(cfg, portfolio, total_commission, current_dt,
                              o.stock, o.target_amount, o.limit_price,
                              o.limit_status)
       IN /\ portfolio' = r.pf
          /\ total_commission' = r.total_commission
          /\ last' = [op |-> "process_order", stock |-> o.stock,
                      target_amount |-> o.target_amount,
                      limit_price |-> o.limit_price,
                      limit_status |-> o.limit_status,
                      ok |-> r.ok, raised |-> r.raised, step |-> r.step,
                      price |-> r.price,
                      delta |-> r.delta, before |-> portfolio,
                      commission_before |-> total_commission,
                      orders_before |-> blotter.order_id_counter]
    /\ ops' = ops + 1
    /\ UNCHANGED <<threads, stock_data, controller, call_log, current_phase, phase_executed, current_dt, cfg,
                   dividends_paid,
                   last_read, run,
                   blotter>>

\* _process_dividend_events(current_dt), which the daily loop runs once a day
ODividendEvents ==
    /\ ~dividends_paid
    /\ portfolio' = process_dividend_events(portfolio, current_dt)
    /\ dividends_paid' = TRUE
    /\ last' = [op |-> "dividend_events", before |-> portfolio]
    /\ UNCHANGED <<threads, stock_data, controller, call_log, current_phase, phase_executed, current_dt, cfg,
                   total_commission, ops,
                   last_read, run,
                   blotter>>

\* context.current_dt = the next trading day, once the day's dividend events
\* are done
ONextDay ==
    /\ DayIndex(current_dt) < MaxOrderDays
    /\ dividends_paid
    /\ current_dt' = CalendarDates[DayIndex(current_dt) + 1]
    /\ dividends_paid' = FALSE
    /\ last' = [op |-> "set_date", before |-> portfolio]
    /\ UNCHANGED <<threads, stock_data, controller, call_log, current_phase, phase_executed, portfolio, cfg,
                   total_commission, ops,
                   last_read, run,
                   blotter>>

InitOrders ==
    /\ ControllerInit
    /\ threads = NoThreads
    /\ stock_data = NoStockData
    /\ \E a \in Accounts :
        /\ LedgerInit(a.cash)
        /\ cfg = a.cfg
    /\ run = NoEngine
    /\ last = NoOp

NextOrders ==
    \/ \E o \in OrderMenu : OProcessOrder(o)
    \/ ODividendEvents
    \/ ReadPortfolioValue
    \/ ONextDay

SpecOrders == InitOrders /\ [][NextOrders]_vars

(***************************************************************************)
(* StrategyExecutionEngine.run_backtest, step by step: the checks on the   *)
(* registered functions, initialize, and for each date of date_range the   *)
(* three lifecycle calls (_safe_call: set_phase, then the callback), the   *)
(* dividend events and the statistics.  A callback returns or raises, and  *)
(* handle_data may place an order before it does.                          *)
(***************************************************************************)
MaxRunDays == 3

phase_of(func_name) ==
    CASE func_name = "initialize" -> INITIALIZE
      [] func_name = "before_trading_start" -> BEFORE_TRADING_START
      [] func_name = "handle_data" -> HANDLE_DATA
      [] func_name = "after_trading_end" -> AFTER_TRADING_END

\* A slip: after_trading_end is called before handle_data.
daily_loop_next_ate_first(step) ==
    CASE step = "loop" -> "before_trading_start"
      [] step = "before_trading_start" -> "after_trading_end"
      [] step = "after_trading_end" -> "handle_data"
      [] step = "handle_data" -> "dividend_events"
      [] step = "dividend_events" -> "loop"

\* A slip: the dividend events are processed before after_trading_end.
daily_loop_next_dividends_first(step) ==
    CASE step = "loop" -> "before_trading_start"
      [] step = "before_trading_start" -> "handle_data"
      [] step = "handle_data" -> "dividend_events"
      [] step = "dividend_events" -> "after_trading_end"
      [] step = "after_trading_end" -> "loop"

\* The order of the steps of one iteration of _run_daily_loop: the three
\* calls of _execute_lifecycle, then _process_dividend_events, then the next
\* iteration.
daily_loop_next(step) ==
    CASE step = "loop" -> "before_trading_start"
      [] step = "before_trading_start" -> "handle_data"
      [] step = "handle_data" -> "after_trading_end"
      [] step = "after_trading_end" -> "dividend_events"
      [] step = "dividend_events" -> "loop"

\* allow_fail as _execute_lifecycle passes it
allow_fail(func_name) == func_name = "after_trading_end"

\* A slip: the callback is looked up first, and a missing one returns True
\* at once.
safe_call_lookup_first(func_name, cur, executed, strategy_functions) ==
    IF func_name \notin strategy_functions
    THEN [phase |-> cur, executed |-> executed, set_phase_called |-> FALSE,
          rejected |-> FALSE, invoke |-> FALSE]
    ELSE LET r == set_phase(cur, executed, phase_of(func_name))
         IN [phase |-> r.phase, executed |-> r.executed,
             set_phase_called |-> TRUE, rejected |-> r.raised,
             invoke |-> ~r.raised]

\* _safe_call up to the call of the strategy function: set_phase, then the
\* lookup.  rejected: set_phase raised (return False); invoke: the function
\* is registered and is called next; otherwise return True.
safe_call(func_name, cur, executed, strategy_functions) ==
    LET r == set_phase(cur, executed, phase_of(func_name))
    IN [phase |-> r.phase, executed |-> r.executed,
        set_phase_called |-> TRUE, rejected |-> r.raised,
        invoke |-> ~r.raised /\ func_name \in strategy_functions]

\* A slip: a raising callback is tolerated whatever allow_fail says.
safe_call_result_tolerant(raised, allow) == TRUE

\* The value _safe_call returns once the strategy function was called
safe_call_result(raised, allow) == IF raised THEN allow ELSE TRUE

\* _execute_lifecycle goes on after a _safe_call: it returns False on a False
\* from before_trading_start or handle_data and ignores what
\* after_trading_end returned.
execute_lifecycle_continues(func_name, returned) ==
    returned \/ func_name = "after_trading_end"

\* The run record moved to `step` of the daily loop
Goto(r, step) ==
    IF step = "loop" THEN [r EXCEPT !.pc = "loop", !.func = None]
    ELSE IF step = "dividend_events"
    THEN [r EXCEPT !.pc = "dividend_events", !.func = None]
    ELSE [r EXCEPT !.pc = "safe_call", !.func = step]

\* run_backtest returns `result`
Return(r, result) ==
    [r EXCEPT !.pc = "done", !.func = None, !.is_running = FALSE,
              !.result = result]

\* run_backtest up to the try block
RunBacktest ==
    /\ run.pc = "idle"
    /\ run' = IF "initialize" \notin run.strategy_functions
                 \/ "handle_data" \notin run.strategy_functions
              THEN [run EXCEPT !.pc = "done",
                               !.result = "StrategyExecutionError"]
              ELSE [run EXCEPT !.pc = "initialize", !.is_running = TRUE]
    /\ last' = [op |-> "run_backtest"]
    /\ UNCHANGED <<threads, stock_data, controller, call_log, current_phase, phase_executed, portfolio, current_dt, cfg,
                   total_commission, dividends_paid, last_read, ops,
                   blotter>>

\* _execute_initialize: context.execute_initialize sets the phase and calls
\* the initialize function, which returns or raises; an exception ends
\* run_backtest with False.
ExecuteInitialize(raised) ==
    /\ run.pc = "initialize"
    /\ LET r == set_phase(current_phase, phase_executed, INITIALIZE)
           logged == [run EXCEPT !.phase_log =
                        Append(@, [phase |-> INITIALIZE,
                                   accepted |-> ~r.raised, day |-> 0])]
       IN /\ current_phase' = r.phase
          /\ phase_executed' = r.executed
          /\ run' = IF r.raised \/ raised THEN Return(logged, "False")
                    ELSE Goto(logged, "loop")
          /\ last' = [op |-> "initialize", rejected |-> r.raised,
                      raised |-> ~r.raised /\ raised,
                      from |-> current_phase, before |-> portfolio]
    /\ UNCHANGED <<threads, stock_data, controller, call_log, portfolio, current_dt, cfg, total_commission,
                   dividends_paid, last_read, ops,
                   blotter>>

\* The head of an iteration of _run_daily_loop: the loop ends (True), or
\* current_dt moves to the next date and the value before trading is read
\* (by the loop and by collect_pre_trading).
LoopNext ==
    /\ run.pc = "loop"
    /\ IF run.day = Len(run.date_range)
       THEN /\ run' = Return(run, "True")
            /\ last' = [op |-> "loop_end"]
            /\ UNCHANGED <<portfolio, current_dt, dividends_paid, last_read,
                   blotter>>
       ELSE LET date == run.date_range[run.day + 1]
                v == portfolio_value(portfolio, date)
            IN /\ current_dt' = date
               /\ dividends_paid' = FALSE
               /\ portfolio' = v.pf
               /\ last_read' = Some([value |-> v.value, date |-> date])
               /\ run' = Goto([run EXCEPT !.day = @ + 1,
                                  !.prev_portfolio_value = Some(v.value)],
                              daily_loop_next("loop"))
               /\ last' = [op |-> "day_begin", before |-> portfolio]
    /\ UNCHANGED <<threads, stock_data, controller, call_log, current_phase, phase_executed, cfg, total_commission, ops,
                   blotter>>

\* _safe_call(func_name, phase, data), up to the call of the function
SafeCall ==
    /\ run.pc = "safe_call"
    /\ LET r == safe_call(run.func, current_phase, phase_executed,
                          run.strategy_functions)
           logged == IF r.set_phase_called
                     THEN [run EXCEPT !.phase_log =
                            Append(@, [phase |-> phase_of(run.func),
                                       accepted |-> ~r.rejected,
                                       day |-> run.day])]
                     ELSE run
       IN /\ current_phase' = r.phase
          /\ phase_executed' = r.executed
          /\ run' = IF r.invoke THEN [logged EXCEPT !.pc = "callback"]
                    ELSE IF execute_lifecycle_continues(run.func, ~r.rejected)
                    THEN Goto(logged, daily_loop_next(run.func))
                    ELSE Return(logged, "False")
          /\ last' = [op |-> "safe_call", func |-> run.func,
                      phase |-> phase_of(run.func), day |-> run.day,
                      rejected |-> r.rejected, invoke |-> r.invoke]
    /\ UNCHANGED <<threads, stock_data, controller, call_log, portfolio, current_dt, cfg, total_commission,
                   dividends_paid, last_read, ops,
                   blotter>>

\* The orders a handle_data callback may place
RunOrders ==
    {Order("AAA", 100, Nil, 0), Order("AAA", 0, Nil, 0),
     Order("BBB", 100, Nil, 0)}

\* The strategy function called by _safe_call: it places `orders` (at most
\* one order, and only handle_data does) and then returns or raises.
Callback(orders, raised) ==
    /\ run.pc = "callback"
    /\ Len(orders) <= 1
    /\ orders # <<>> => run.func = "handle_data"
    /\ LET r == IF orders = <<>>
                THEN [pf |-> portfolio, total_commission |-> total_commission]
                ELSE process_order(cfg, portfolio, total_commission,
                                   current_dt, orders[1].stock,
                                   orders[1].target_amount,
                                   orders[1].limit_price,
                                   orders[1].limit_status)
           returned == safe_call_result(raised, allow_fail(run.func))
           noted == IF raised /\ run.func = "after_trading_end"
                    THEN [run EXCEPT !.ate_raised = @ \cup {run.day}]
                    ELSE run
       IN /\ portfolio' = r.pf
          /\ total_commission' = r.total_commission
          /\ run' = IF execute_lifecycle_continues(run.func, returned)
                    THEN Goto(noted, daily_loop_next(run.func))
                    ELSE Return([noted EXCEPT !.fatal =
                                    Some([func |-> run.func, day |-> run.day])],
                                "False")
          /\ last' = [op |-> "callback", func |-> run.func, day |-> run.day,
                      orders |-> orders, raised |-> raised,
                      phase |-> current_phase,
                      dividends_paid |-> dividends_paid,
                      before |-> portfolio]
    /\ UNCHANGED <<threads, stock_data, controller, call_log, current_phase, phase_executed, current_dt, cfg,
                   dividends_paid, last_read, ops,
                   blotter>>

\* The rest of the iteration: _process_dividend_events, then
\* collect_trading_amounts and collect_post_trading, which reads the value.
DividendEvents ==
    /\ run.pc = "dividend_events"
    /\ LET paid == process_dividend_events(portfolio, current_dt)
           v == portfolio_value(paid, current_dt)
       IN /\ portfolio' = v.pf
          /\ last_read' = Some([value |-> v.value, date |-> current_dt])
          /\ last' = [op |-> "dividend_events", day |-> run.day,
                      before |-> portfolio, paid |-> paid]
    /\ dividends_paid' = TRUE
    /\ run' = Goto(run, daily_loop_next("dividend_events"))
    /\ UNCHANGED <<threads, stock_data, controller, call_log, current_phase, phase_executed, current_dt, cfg,
                   total_commission, ops,
                   blotter>>

\* The strategies run: what they register, and the dates they run over.
FunctionSets ==
    {{"initialize", "before_trading_start", "handle_data", "after_trading_end"},
     {"initialize", "handle_data"},
     {"initialize", "handle_data", "after_trading_end"},
     {"before_trading_start", "handle_data"},
     {"initialize", "after_trading_end"}}

DateRanges == {SubSeq(CalendarDates, 1, n) : n \in 0..MaxRunDays}

InitRun ==
    /\ ControllerInit
    /\ threads = NoThreads
    /\ stock_data = NoStockData
    /\ LedgerInit(I(3000))
    /\ cfg = NoFeeConfig
    /\ \E f \in FunctionSets, d \in DateRanges : run = NewEngine(f, d)
    /\ last = NoOp

NextRun ==
    \/ RunBacktest
    \/ \E raised \in BOOLEAN : ExecuteInitialize(raised)
    \/ LoopNext
    \/ SafeCall
    \/ \E o \in RunOrders, raised \in BOOLEAN : Callback(<<o>>, raised)
    \/ \E raised \in BOOLEAN : Callback(<<>>, raised)
    \/ DividendEvents

SpecRun == InitRun /\ [][NextRun]_vars

(***************************************************************************)
(* The blotter driven by a strategy: orders created and cancelled, and     *)
(* process_orders at the close of the day.                                 *)
(***************************************************************************)
MaxBlotterOrders == 2
MaxBlotterDays == 3

BlotterConfig ==
    [commission_ratio |-> Q(3, 10000), min_commission |-> I(5),
     tax_rate |-> Q(1, 1000), slippage |-> Zero, fixed_slippage |-> Zero,
     limit_mode |-> "LIMIT", volume_ratio |-> Q(25, 100)]

UnlimitedConfig ==
    [commission_ratio |-> Q(3, 10000), min_commission |-> I(5),
     tax_rate |-> Q(1, 1000), slippage |-> Zero, fixed_slippage |-> Zero,
     limit_mode |-> "UNLIMITED", volume_ratio |-> Q(25, 100)]

OrderAmounts == {100, 500, -100}

BCreateOrder(stock, amount) ==
    /\ blotter.order_id_counter < MaxBlotterOrders
    /\ blotter' = create_order(blotter, stock, amount, current_dt)
    /\ last' = [op |-> "create_order", id |-> blotter.order_id_counter + 1]
    /\ UNCHANGED <<threads, stock_data, controller, call_log, current_phase, phase_executed, portfolio, current_dt, cfg,
                   total_commission, dividends_paid, last_read, run, ops>>

BCancelOrder(id) ==
    /\ LET r == cancel_order(blotter, id) IN
        /\ blotter' = r.bl
        /\ last' = [op |-> "cancel_order", id |-> id, ok |-> r.ok,
                    before |-> blotter]
    /\ UNCHANGED <<threads, stock_data, controller, call_log, current_phase, phase_executed, portfolio, current_dt, cfg,
                   total_commission, dividends_paid, last_read, run, ops>>

BProcessOrders ==
    /\ LET r == process_orders(cfg, blotter, portfolio, current_dt) IN
        /\ blotter' = r.bl
        /\ portfolio' = r.pf
        /\ last' = [op |-> "process_orders", executed |-> r.executed,
                    traded |-> r.traded,
                    was_open |-> blotter.open_orders,
                    orders_before |-> blotter.orders,
                    before |-> portfolio]
    /\ UNCHANGED <<threads, stock_data, controller, call_log, current_phase, phase_executed, current_dt, cfg,
                   total_commission, dividends_paid, last_read, run, ops>>

\* context.current_dt and blotter.current_dt = the next trading day
BNextDay ==
    /\ DayIndex(current_dt) < MaxBlotterDays
    /\ current_dt' = CalendarDates[DayIndex(current_dt) + 1]
    /\ last' = [op |-> "set_date"]
    /\ UNCHANGED <<threads, stock_data, controller, call_log, current_phase, phase_executed, portfolio, cfg,
                   total_commission, dividends_paid, last_read, run, blotter,
                   ops>>

InitBlotter ==
    /\ ControllerInit
    /\ threads = NoThreads
    /\ stock_data = NoStockData
    /\ LedgerInit(I(3000))
    /\ cfg \in {BlotterConfig, UnlimitedConfig}
    /\ run = NoEngine
    /\ last = NoOp

NextBlotter ==
    \/ \E stock \in Symbols, amount \in OrderAmounts :
         BCreateOrder(stock, amount)
    \/ \E id \in DOMAIN blotter.orders : BCancelOrder(id)
    \/ BProcessOrders
    \/ BNextDay

SpecBlotter == InitBlotter /\ [][NextBlotter]_vars

(***************************************************************************)
(* Both settlement paths on one account in a symbol that hits its price    *)
(* limits: process_order called with the limit state of the day, and       *)
(* orders left with the blotter.                                           *)
(***************************************************************************)
LimitConfig ==
    [commission_ratio |-> Zero, min_commission |-> I(5),
     tax_rate |-> Q(1, 1000), slippage |-> Zero, fixed_slippage |-> Zero,
     limit_mode |-> "LIMIT", volume_ratio |-> Q(25, 100)]

LimitSymbols == {"BBB"}

LimitTargets == {0, 100}

InitLimits ==
    /\ ControllerInit
    /\ threads = NoThreads
    /\ stock_data = NoStockData
    /\ LedgerInit(I(3000))
    /\ cfg = LimitConfig
    /\ run = NoEngine
    /\ last = NoOp

NextLimits ==
    \/ \E stock \in LimitSymbols, target \in LimitTargets :
         OProcessOrder(Order(stock, target, Nil,
                             LimitStatus(stock, current_dt)))
    \/ \E stock \in LimitSymbols, amount \in {100, -100} :
         BCreateOrder(stock, amount)
    \/ BProcessOrders
    \/ BNextDay

SpecLimits == InitLimits /\ [][NextLimits]_vars

(***************************************************************************)
(* Orders of one symbol left with the blotter, cancelled and processed.    *)
(***************************************************************************)
CancelSymbols == {"AAA"}

NextCancel ==
    \/ \E stock \in CancelSymbols, amount \in {100, -100} :
         BCreateOrder(stock, amount)
    \/ \E id \in DOMAIN blotter.orders : BCancelOrder(id)
    \/ BProcessOrders
    \/ BNextDay

SpecCancel == InitLimits /\ [][NextCancel]_vars

(***************************************************************************)
(* The controller's phase callbacks: callbacks are registered, phases set  *)
(* and the controller reset.                                               *)
(***************************************************************************)
MaxCallbacks == 2

\* The callbacks a strategy registers: one that returns, one that raises
PhaseCallbacks == {[id |-> 1, raises |-> FALSE], [id |-> 2, raises |-> TRUE]}
CallbackPhases == {INITIALIZE, HANDLE_DATA}

RECURSIVE SumLen(_, _)
SumLen(f, S) ==
    IF S = {} THEN 0
    ELSE LET x == CHOOSE y \in S : TRUE IN Len(f[x]) + SumLen(f, S \ {x})

Registered == SumLen(controller.phase_callbacks, LifecyclePhase)

InitCallbacks ==
    /\ ControllerInit
    /\ threads = NoThreads
    /\ stock_data = NoStockData
    /\ LedgerInit(Zero)
    /\ cfg = DefaultConfig
    /\ run = NoEngine
    /\ last = NoOp

MaxApiRecords == 1

NextCallbacks ==
    \/ \E phase \in LifecyclePhase : SetPhase(phase)
    \/ \E phase \in CallbackPhases, callback \in PhaseCallbacks :
         Registered < MaxCallbacks /\ RegisterPhaseCallback(phase, callback)
    \/ Reset

SpecCallbacks == InitCallbacks /\ [][NextCallbacks]_vars

(***************************************************************************)
(* A controller with a callback, recorded calls and phase changes.         *)
(***************************************************************************)
MaxRejectCallbacks == 1

NextReject ==
    \/ \E phase \in LifecyclePhase : SetPhase(phase)
    \/ Registered < MaxRejectCallbacks
          /\ RegisterPhaseCallback(HANDLE_DATA, [id |-> 1, raises |-> FALSE])
    \/ Len(call_log) < MaxApiRecords /\ RecordApiCall("order", TRUE)
    \/ Reset

SpecReject == InitCallbacks /\ [][NextReject]_vars

(***************************************************************************)
(* The controller's validation of operations: phases are set, operations   *)
(* validated and recorded, and the controller reset.                       *)
(***************************************************************************)
NextValidate ==
    \/ \E phase \in LifecyclePhase : SetPhase(phase)
    \/ \E api_name \in ApiNames : ValidateApiCall(api_name)
    \/ \E api_name \in ApiNames : IsApiAllowed(api_name)
    \/ Len(call_log) < MaxApiRecords /\ RecordApiCall("order", TRUE)
    \/ Reset

SpecValidate == InitCallbacks /\ [][NextValidate]_vars

(***************************************************************************)
(* The same validation in a controller of each strategy mode.              *)
(***************************************************************************)
\* PTradeMode values the factory functions create contexts with
StrategyModes == {"research", "backtest", "trading"}

InitModes ==
    /\ current_phase = None
    /\ phase_executed = {}
    /\ controller \in {NewController(mode) : mode \in StrategyModes}
    /\ threads = NoThreads
    /\ stock_data = NoStockData
    /\ call_log = <<>>
    /\ LedgerInit(Zero)
    /\ cfg = DefaultConfig
    /\ run = NoEngine
    /\ last = NoOp

NextModes ==
    \/ \E phase \in LifecyclePhase : SetPhase(phase)
    \/ \E api_name \in ApiNames : ValidateApiCall(api_name)

SpecModes == InitModes /\ [][NextModes]_vars

(***************************************************************************)
(* A long run of record_api_call, past max_history_size records.  The      *)
(* first call and the calls from the last place of the history on are any  *)
(* of HistoryInputs in any of HistoryPhases; the calls in between are      *)
(* failed get_price calls in the phase reached.                            *)
(***************************************************************************)
MaxCalls == 1002

HistoryInputs == {<<"order", TRUE>>, <<"get_price", FALSE>>}
HistoryPhases == {INITIALIZE, HANDLE_DATA}

\* The calls at which the strategy's choice is left open
FreeCall == Len(call_log) = 0 \/ Len(call_log) >= max_history_size - 1

NextHistory ==
    \/ \E phase \in HistoryPhases : FreeCall /\ SetPhase(phase)
    \/ \E input \in HistoryInputs :
         /\ Len(call_log) < MaxCalls
         /\ FreeCall \/ input = <<"get_price", FALSE>>
         /\ RecordApiCall(input[1], input[2])
    \/ FreeCall /\ Reset
    \/ FreeCall /\ GetCallStatistics

SpecHistory == InitCallbacks /\ [][NextHistory]_vars

(***************************************************************************)
(* run_backtest called again on the engine and context of a run that has   *)
(* returned, without a reset in between.                                   *)
(***************************************************************************)
MaxRuns == 2
MaxRerunDays == 1

\* What is known of a run that has returned.
Summary(r, phase) ==
    [result |-> r.result, days |-> Len(r.date_range), fatal |-> r.fatal,
     phase |-> phase, phase_log |-> r.phase_log]

\* run_backtest up to the try block, on an engine whose earlier
\* run_backtest has returned or raised.
RunBacktestAgain ==
    /\ run.pc = "done"
    /\ Len(run.earlier) + 1 < MaxRuns
    /\ LET fresh == NewEngine(run.strategy_functions, run.date_range)
                    @@ [earlier |-> Append(run.earlier,
                                           Summary(run, current_phase))]
       IN run' = IF "initialize" \notin run.strategy_functions
                    \/ "handle_data" \notin run.strategy_functions
                 THEN [fresh EXCEPT !.pc = "done",
                                    !.result = "StrategyExecutionError"]
                 ELSE [fresh EXCEPT !.pc = "initialize", !.is_running = TRUE]
    /\ last' = [op |-> "run_backtest"]
    /\ UNCHANGED <<threads, stock_data, controller, call_log, current_phase,
                   phase_executed, portfolio, current_dt, cfg,
                   total_commission, dividends_paid, last_read, ops,
                   blotter>>

InitRerun ==
    /\ ControllerInit
    /\ threads = NoThreads
    /\ stock_data = NoStockData
    /\ LedgerInit(I(3000))
    /\ cfg = NoFeeConfig
    /\ \E f \in FunctionSets, n \in 0..MaxRerunDays :
          run = NewEngine(f, SubSeq(CalendarDates, 1, n)) @@ [earlier |-> <<>>]
    /\ last = NoOp

NextRerun ==
    \/ RunBacktest
    \/ RunBacktestAgain
    \/ \E raised \in BOOLEAN : ExecuteInitialize(raised)
    \/ LoopNext
    \/ SafeCall
    \/ \E o \in RunOrders, raised \in BOOLEAN : Callback(<<o>>, raised)
    \/ \E raised \in BOOLEAN : Callback(<<>>, raised)
    \/ DividendEvents

SpecRerun == InitRerun /\ [][NextRerun]_vars

(***************************************************************************)
(* StockData.mavg: the Data object of the day, its StockData objects and   *)
(* the global ma_cache, read by the callbacks of the day.                  *)
(***************************************************************************)
MaxMavgDays == 3
MavgWindows == {1, 2}

\* sorted_dates of get_stock_date_index: the dates of the rows of the
\* stock's frame; date_dict maps a date to its position, counted from 0.
RowDates(stock) == SelectSeq(CalendarDates, LAMBDA d : Close(stock, d) # Nil)

bisect_left(sorted_dates, x) ==
    Cardinality({i \in 1..Len(sorted_dates) : sorted_dates[i] < x})

date_dict(stock, date) ==
    (CHOOSE i \in 1..Len(RowDates(stock)) : RowDates(stock)[i] = date) - 1

InRows(stock, date) ==
    \E i \in 1..Len(RowDates(stock)) : RowDates(stock)[i] = date

\* stock_df.iloc[idx]['close']
RowClose(stock, idx) == Val(Close(stock, RowDates(stock)[idx + 1]))

\* StockData.__init__
NewStockData(stock, current_date) ==
    [stock |-> stock, current_date |-> current_date, current_idx |-> Nil,
     data |-> Nil, cached_phase |-> None, cached_idx |-> Nil]

\* StockData._ensure_data_loaded with _load_data: the object after the call
\* and whether ValueError was raised.
ensure_data_loaded(obj, phase) ==
    LET pos == bisect_left(RowDates(obj.stock), obj.current_date)
        idx == IF phase = BEFORE_TRADING_START
               THEN IF pos > 0 THEN Some(pos - 1) ELSE obj.current_idx
               ELSE IF InRows(obj.stock, obj.current_date)
                    THEN Some(date_dict(obj.stock, obj.current_date))
                    ELSE obj.current_idx
        placed == [obj EXCEPT !.current_idx = idx]
    IN IF obj.cached_phase # phase \/ obj.cached_idx # idx \/ obj.data = Nil
       THEN IF idx = Nil
            THEN [obj |-> placed, raised |-> TRUE]
            ELSE [obj |-> [placed EXCEPT
                              !.data = Some([close |->
                                               RowClose(obj.stock, Val(idx))]),
                              !.cached_phase = phase,
                              !.cached_idx = idx],
                  raised |-> FALSE]
       ELSE [obj |-> placed, raised |-> FALSE]

\* np.nanmean of stock_df.iloc[start_idx:current_idx + 1]['close']
window_mean(stock, current_idx, window) ==
    LET start_idx == IF current_idx - window + 1 > 0
                     THEN current_idx - window + 1 ELSE 0
    IN RDivInt(RSum([i \in start_idx..current_idx |-> RowClose(stock, i)],
                    start_idx..current_idx),
               current_idx - start_idx + 1)

\* StockData.mavg after _ensure_data_loaded: the cache after the call, the
\* value returned, whether ValueError was raised, whether the cache was hit.
mavg(ma_cache, obj, window) ==
    LET cache_key == <<obj.stock, obj.current_date, window>> IN
    IF cache_key \in DOMAIN ma_cache
    THEN [ma_cache |-> ma_cache, value |-> Some(ma_cache[cache_key]),
          raised |-> FALSE, hit |-> TRUE]
    ELSE IF obj.current_idx = Nil
    THEN [ma_cache |-> ma_cache, value |-> Nil, raised |-> TRUE, hit |-> FALSE]
    ELSE LET result == window_mean(obj.stock, Val(obj.current_idx), window)
         IN [ma_cache |-> [k \in DOMAIN ma_cache \cup {cache_key} |->
                              IF k = cache_key THEN result ELSE ma_cache[k]],
             value |-> Some(result), raised |-> FALSE, hit |-> FALSE]

\* cache_manager.clear_daily_cache(current_date)
clear_daily_cache(sd, current_date) ==
    IF sd.cache_date = Nil \/ Val(sd.cache_date) # current_date
    THEN [sd EXCEPT !.ma_cache = <<>>, !.cache_date = Some(current_date)]
    ELSE sd

\* The head of an iteration of _run_daily_loop up to the set_phase of
\* before_trading_start: the date, the daily cache, a new Data object.
MDayBegin ==
    /\ current_phase \in {INITIALIZE, AFTER_TRADING_END}
    /\ ops < MaxMavgDays
    /\ LET date == CalendarDates[ops + 1]
           r == set_phase(current_phase, phase_executed, BEFORE_TRADING_START)
       IN /\ current_dt' = date
          /\ stock_data' = [clear_daily_cache(stock_data, date)
                               EXCEPT !.data = <<>>]
          /\ current_phase' = r.phase
          /\ phase_executed' = r.executed
          /\ last' = [op |-> "day_begin", date |-> date]
    /\ ops' = ops + 1
    /\ UNCHANGED <<threads, controller, call_log, portfolio, cfg,
                   total_commission, dividends_paid, last_read, run, blotter>>

\* A callback of the day reads data[stock].mavg(window).
MMavg(stock, window) ==
    /\ current_phase \in {BEFORE_TRADING_START, HANDLE_DATA, AFTER_TRADING_END}
    /\ LET obj == IF stock \in DOMAIN stock_data.data
                  THEN stock_data.data[stock]
                  ELSE NewStockData(stock, current_dt)
           loaded == ensure_data_loaded(obj, current_phase)
           r == IF loaded.raised
                THEN [ma_cache |-> stock_data.ma_cache, value |-> Nil,
                      raised |-> TRUE, hit |-> FALSE]
                ELSE mavg(stock_data.ma_cache, loaded.obj, window)
       IN /\ stock_data' = [stock_data EXCEPT
                              !.ma_cache = r.ma_cache,
                              !.data = [s \in DOMAIN @ \cup {stock} |->
                                          IF s = stock THEN loaded.obj
                                          ELSE @[s]]]
          /\ last' = [op |-> "mavg", stock |-> stock, window |-> window,
                      phase |-> current_phase, value |-> r.value,
                      raised |-> r.raised, hit |-> r.hit]
    /\ UNCHANGED <<threads, current_phase, phase_executed, controller,
                   call_log, portfolio, current_dt, cfg, total_commission,
                   dividends_paid, ops, last_read, run, blotter>>

NextMavg ==
    \/ current_phase = None /\ SetPhase(INITIALIZE)
    \/ MDayBegin
    \/ current_phase = BEFORE_TRADING_START /\ SetPhase(HANDLE_DATA)
    \/ current_phase = HANDLE_DATA /\ SetPhase(AFTER_TRADING_END)
    \/ \E stock \in Symbols, window \in MavgWindows : MMavg(stock, window)

SpecMavg == InitCallbacks /\ [][NextMavg]_vars

(***************************************************************************)
(* Concurrent callers of one controller.                                   *)
(***************************************************************************)
InitThreads ==
    /\ ControllerInit
    /\ threads = [owner |-> Nil, local |-> [t \in Threads |-> Idle],
                  started |-> 0]
    /\ stock_data = NoStockData
    /\ LedgerInit(Zero)
    /\ cfg = DefaultConfig
    /\ run = NoEngine
    /\ last = NoOp

NextThreads ==
    \E t \in Threads :
        \/ \E phase \in ThreadPhases : TCallSetPhase(t, phase)
        \/ TCallRecordApiCall(t, "order", TRUE)
        \/ TAcquire(t)
        \/ TValidate(t)
        \/ TAssign(t)
        \/ TFinish(t)
        \/ TBuild(t)
        \/ TAppend(t)

SpecThreads == InitThreads /\ [][NextThreads]_vars

NextPhase == \E phase \in LifecyclePhase : SetPhase(phase)

SpecPhase == InitPhase /\ [][NextPhase]_vars

(***************************************************************************)
(* C1                                                                      *)
(***************************************************************************)
\* The transition table as the specification states it.
PhaseGraph ==
    [p \in LifecyclePhase \cup {None} |->
        CASE p = None -> {INITIALIZE}
          [] p = INITIALIZE -> {BEFORE_TRADING_START, HANDLE_DATA}
          [] p = BEFORE_TRADING_START -> {HANDLE_DATA, TICK_DATA}
          [] p = HANDLE_DATA ->
                {HANDLE_DATA, TICK_DATA, AFTER_TRADING_END, ON_ORDER_RESPONSE,
                 ON_TRADE_RESPONSE}
          [] p = TICK_DATA ->
                {TICK_DATA, HANDLE_DATA, ON_ORDER_RESPONSE, ON_TRADE_RESPONSE}
          [] p = ON_ORDER_RESPONSE -> {HANDLE_DATA, TICK_DATA, ON_TRADE_RESPONSE}
          [] p = ON_TRADE_RESPONSE -> {HANDLE_DATA, TICK_DATA}
          [] p = AFTER_TRADING_END -> {BEFORE_TRADING_START, INITIALIZE}]

\* C1: set_phase(q) from phase p succeeds and makes q current iff q is in the
\* allowed set of p in the specified table; otherwise it raises and the phase
\* stays p.  In particular after_trading_end -> handle_data raises and
\* after_trading_end -> before_trading_start succeeds.
C1_PhaseGraphLaw ==
    last.op = "set_phase" =>
        /\ last.raised <=> last.to \notin PhaseGraph[last.from]
        /\ ~last.raised => current_phase = last.to
        /\ last.raised => current_phase = last.from
        /\ (last.from = AFTER_TRADING_END /\ last.to = HANDLE_DATA)
                => last.raised
        /\ (last.from = AFTER_TRADING_END /\ last.to = BEFORE_TRADING_START)
                => ~last.raised

C1_Witness ==
    /\ last.op = "set_phase"
    /\ last.from = AFTER_TRADING_END
    /\ last.to = HANDLE_DATA
    /\ last.raised
    /\ current_phase = AFTER_TRADING_END

(***************************************************************************)
(* C2                                                                      *)
(***************************************************************************)
\* The i-th phase of Initialize, (BeforeTradingStart, HandleData,
\* AfterTradingEnd)*
ExpectedPhase(i) ==
    IF i = 1 THEN INITIALIZE
    ELSE CASE (i - 2) % 3 = 0 -> BEFORE_TRADING_START
           [] (i - 2) % 3 = 1 -> HANDLE_DATA
           [] (i - 2) % 3 = 2 -> AFTER_TRADING_END

\* C2: the phases run_backtest passes to set_phase are a prefix of
\* Initialize, then (BeforeTradingStart, HandleData, AfterTradingEnd) once
\* per day of date_range; every call is accepted, and the controller is in
\* no other phase.
C2_PhaseSequence ==
    /\ Len(run.phase_log) <= 1 + 3 * Len(run.date_range)
    /\ \A i \in 1..Len(run.phase_log) :
          /\ run.phase_log[i].phase = ExpectedPhase(i)
          /\ run.phase_log[i].accepted
          /\ run.phase_log[i].day = (i + 1) \div 3
    /\ current_phase = IF run.phase_log = <<>> THEN None
                       ELSE run.phase_log[Len(run.phase_log)].phase
    /\ phase_executed \subseteq {INITIALIZE, BEFORE_TRADING_START, HANDLE_DATA,
                                 AFTER_TRADING_END}

\* Two whole days were run by a strategy without before_trading_start whose
\* after_trading_end raised on the first day.
C2_Witness ==
    /\ Len(run.phase_log) = 7
    /\ "before_trading_start" \notin run.strategy_functions
    /\ 1 \in run.ate_raised

(***************************************************************************)
(* C3                                                                      *)
(***************************************************************************)
RECURSIVE SumAmounts(_)
SumAmounts(lots) ==
    IF lots = <<>> THEN 0 ELSE Head(lots).amount + SumAmounts(Tail(lots))

\* C3: a symbol has lots iff it has a position, and the position's amount is
\* the sum of its lots' amounts.
C3_LotsMatchPositions ==
    /\ DOMAIN portfolio.lots = DOMAIN portfolio.positions
    /\ \A s \in DOMAIN portfolio.positions :
         portfolio.positions[s].amount = SumAmounts(portfolio.lots[s])

\* A partial sale of a lot that had received a dividend.
C3_Witness ==
    /\ last.op = "remove_position"
    /\ ~last.raised
    /\ last.stock \in DOMAIN portfolio.positions
    /\ portfolio.lots[last.stock][1].amount
            < last.before.lots[last.stock][1].amount
    /\ portfolio.lots[last.stock][1].dividends_total.n > 0

(***************************************************************************)
(* C4                                                                      *)
(***************************************************************************)
\* `after` is `before` with k shares taken oldest-first: the first j lots are
\* gone, the next lot keeps its date and loses the rest r of the k shares
\* (it is untouched when r = 0), and the later lots are intact.
ConsumedOldestFirst(before, after, k) ==
    \E j \in 0..(Len(before) - 1) :
        LET r == k - SumAmounts(SubSeq(before, 1, j)) IN
        /\ 0 <= r
        /\ r < before[j + 1].amount
        /\ Len(after) = Len(before) - j
        /\ after[1].date = before[j + 1].date
        /\ after[1].amount = before[j + 1].amount - r
        /\ r = 0 => after[1] = before[j + 1]
        /\ \A i \in 2..Len(after) : after[i] = before[j + i]

\* C4: a successful partial sale of k shares leaves the lots consumed
\* oldest-first, and a sale of the whole holding leaves no lot; with lot A
\* (100, D1) before lot B (50, D2), selling 120 leaves only B with 30 shares
\* dated D2.
C4_FifoLaw ==
    (last.op = "remove_position" /\ ~last.raised
        /\ last.stock \in DOMAIN last.before.positions) =>
        LET before == last.before.lots[last.stock]
            k == last.amount
        IN /\ IF k = last.before.positions[last.stock].amount
              THEN last.stock \notin DOMAIN portfolio.lots
              ELSE /\ last.stock \in DOMAIN portfolio.lots
                   /\ ConsumedOldestFirst(before, portfolio.lots[last.stock], k)
           /\ (/\ Len(before) = 2
               /\ before[1].amount = 100
               /\ before[2].amount = 50
               /\ k = 120)
                => /\ Len(portfolio.lots[last.stock]) = 1
                   /\ portfolio.lots[last.stock][1].amount = 30
                   /\ portfolio.lots[last.stock][1].date = before[2].date

\* Lot A (100, day 1), lot B (50, day 11), 120 sold.
C4_Witness ==
    /\ last.op = "remove_position"
    /\ ~last.raised
    /\ last.amount = 120
    /\ last.stock \in DOMAIN last.before.lots
    /\ Len(last.before.lots[last.stock]) = 2
    /\ last.before.lots[last.stock][1].amount = 100
    /\ last.before.lots[last.stock][1].date = 1
    /\ last.before.lots[last.stock][2].amount = 50
    /\ last.before.lots[last.stock][2].date = 11
    /\ last.stock \in DOMAIN portfolio.lots
    /\ portfolio.lots[last.stock][1].amount = 30

(***************************************************************************)
(* C5                                                                      *)
(***************************************************************************)
\* cash + the sum over the symbols of amount x mark price, stated over the
\* whole symbol set rather than over the positions held.
FreshValue(pf, date) ==
    LET worth == [s \in Symbols |->
                    IF s \in DOMAIN pf.positions
                    THEN LET close == Close(s, date)
                             mark == IF close = Nil
                                     THEN pf.positions[s].cost_basis
                                     ELSE Val(close)
                         IN RMul(I(pf.positions[s].amount), mark)
                    ELSE Zero]
    IN RAdd(pf.cash, RSum(worth, Symbols))

\* C5: every read of portfolio_value returns cash + sum of amount x mark
\* price (the close of the date, cost_basis when there is none), and a cached
\* value that a read on the current date would return is that same amount.
C5_ValueIsFresh ==
    /\ last.op = "portfolio_value" =>
          last.value = FreshValue(last.before, current_dt)
    /\ (portfolio.cached_value # Nil /\ portfolio.cache_date = Some(current_dt)) =>
          Val(portfolio.cached_value) = FreshValue(portfolio, current_dt)

\* Two reads on the same date with a trade in between returned different
\* values, the second with a position marked at the close.
C5_Witness ==
    /\ last.op = "portfolio_value"
    /\ last.prev_read # Nil
    /\ Val(last.prev_read).date = current_dt
    /\ Val(last.prev_read).value # last.value
    /\ DOMAIN portfolio.positions # {}

(***************************************************************************)
(* C6                                                                      *)
(***************************************************************************)
\* C6: starting from non-negative cash, after any sequence of orders resolved
\* by process_order the cash is never negative.
C6_CashNeverNegative == portfolio.cash.n >= 0

\* What holds instead: a buy never leaves the cash negative.
C6_BuyKeepsCashNonNegative ==
    (last.op = "process_order" /\ last.step = "buy" /\ last.ok) =>
        portfolio.cash.n >= 0

(***************************************************************************)
(* C7                                                                      *)
(***************************************************************************)
\* C7 as stated: when the after_trading_end callback runs, the day's dividend
\* events have been applied (or none was due on what is held).
C7_DividendsBeforeAfterTradingEnd ==
    (run.pc = "callback" /\ run.func = "after_trading_end") =>
        \/ dividends_paid
        \/ process_dividend_events(portfolio, current_dt) = portfolio

\* C7, amended: the day's dividend events are applied after all three
\* lifecycle calls, after_trading_end included, and before the next day
\* begins; no callback of the day runs with them applied.
C7_DividendsAfterAfterTradingEnd ==
    /\ run.pc \in {"safe_call", "callback"} => ~dividends_paid
    /\ last.op = "callback" => ~last.dividends_paid
    /\ run.pc = "dividend_events" =>
          /\ ~dividends_paid
          /\ run.phase_log[Len(run.phase_log)] =
                [phase |-> AFTER_TRADING_END, accepted |-> TRUE,
                 day |-> run.day]
    /\ (run.pc = "loop" /\ run.day > 0) => dividends_paid
    /\ last.op = "dividend_events" =>
          /\ current_phase = AFTER_TRADING_END
          /\ last.paid = process_dividend_events(last.before, current_dt)

\* A dividend was credited on a day whose after_trading_end callback had
\* run.
C7_Witness ==
    /\ last.op = "dividend_events"
    /\ "after_trading_end" \in run.strategy_functions
    /\ RLt(last.before.cash, last.paid.cash)
    /\ run.day \notin run.ate_raised

(***************************************************************************)
(* C8                                                                      *)
(***************************************************************************)
\* The portfolio with the value cache left out
Ledger(pf) == [cash |-> pf.cash, positions |-> pf.positions, lots |-> pf.lots]

\* C8: a before_trading_start or handle_data callback that raises ends the
\* run: False is returned, the failed phase is the last one entered, the
\* day's dividend events are not processed, no later day begins, and what
\* the callback did to the ledger before it raised stays.  An
\* after_trading_end callback that raises does not end the run: the day's
\* remaining steps follow and the next day's before_trading_start is entered.
C8_FatalAndNonFatal ==
    /\ run.fatal # Nil =>
          LET f == Val(run.fatal) IN
          /\ f.func \in {"before_trading_start", "handle_data"}
          /\ run.pc = "done" /\ run.result = "False" /\ ~run.is_running
          /\ run.day = f.day
          /\ run.phase_log[Len(run.phase_log)] =
                [phase |-> phase_of(f.func), accepted |-> TRUE, day |-> f.day]
          /\ ~dividends_paid
          /\ last.op = "callback" /\ last.raised /\ last.func = f.func
          /\ Ledger(portfolio) =
                IF last.orders = <<>> THEN Ledger(last.before)
                ELSE Ledger(process_order(cfg, last.before, Zero, current_dt,
                                          last.orders[1].stock,
                                          last.orders[1].target_amount,
                                          last.orders[1].limit_price,
                                          last.orders[1].limit_status).pf)
    /\ (last.op = "callback" /\ last.raised
            /\ last.func \in {"before_trading_start", "handle_data"}) =>
          run.fatal # Nil
    /\ run.result = "False" =>
          run.fatal # Nil \/ (last.op = "initialize" /\ last.raised)
    /\ \A d \in run.ate_raised :
          /\ run.day = d =>
                \/ run.pc \in {"dividend_events", "loop"}
                \/ /\ run.pc = "done" /\ run.result = "True"
                   /\ d = Len(run.date_range)
          /\ run.day > d =>
                \/ /\ run.day = d + 1 /\ run.pc = "safe_call"
                   /\ run.func = "before_trading_start"
                \/ /\ Len(run.phase_log) >= 3 * d + 2
                   /\ run.phase_log[3 * d + 2] =
                        [phase |-> BEFORE_TRADING_START, accepted |-> TRUE,
                         day |-> d + 1]

\* handle_data bought and then raised on the second day, after an
\* after_trading_end that raised on the first.
C8_Witness ==
    /\ run.fatal = Some([func |-> "handle_data", day |-> 2])
    /\ 1 \in run.ate_raised
    /\ last.orders # <<>>
    /\ DOMAIN portfolio.positions # DOMAIN last.before.positions

(***************************************************************************)
(* C9                                                                      *)
(***************************************************************************)
\* C9: _safe_call sets the phase before it looks the callback up: a callback
\* runs in its own phase, and the phase is entered, marked executed and
\* logged also when no callback is registered or the callback raises.
C9_PhaseSetBeforeLookup ==
    /\ run.pc = "callback" =>
          /\ current_phase = phase_of(run.func)
          /\ phase_of(run.func) \in phase_executed
    /\ last.op = "callback" =>
          /\ last.phase = phase_of(last.func)
          /\ phase_of(last.func) \in phase_executed
    /\ (last.op = "safe_call" /\ ~last.rejected) =>
          /\ current_phase = last.phase
          /\ last.phase \in phase_executed
          /\ run.phase_log[Len(run.phase_log)] =
                [phase |-> last.phase, accepted |-> TRUE, day |-> last.day]

\* _safe_call returned True for an after_trading_end that is not registered,
\* on the second day.
C9_Witness ==
    /\ last.op = "safe_call"
    /\ ~last.invoke /\ ~last.rejected
    /\ last.func = "after_trading_end"
    /\ last.day = 2
    /\ 1 \notin run.ate_raised

(***************************************************************************)
(* C10                                                                     *)
(***************************************************************************)
TerminalStatuses == {"filled", "partially-filled", "failed", "cancelled"}

\* C10: after process_orders returns, open_orders is empty and every order
\* that was open has a terminal status.
C10_NoOrderSurvives ==
    last.op = "process_orders" =>
        /\ blotter.open_orders = <<>>
        /\ \A i \in 1..Len(last.was_open) :
              blotter.orders[last.was_open[i]].status \in TerminalStatuses

(***************************************************************************)
(* C11                                                                     *)
(***************************************************************************)
\* The order process_order was last called with failed at the order level:
\* no price, limit-up on a buy, limit-down on a sell, cash short of cost plus
\* commission, or a holding missing or smaller than the quantity to sell.
OrderLevelFailure ==
    \/ last.price = Nil
    \/ /\ last.price # Nil /\ last.delta > 0
       /\ \/ last.limit_status = 1
          \/ RLt(last.before.cash,
                 RAdd(RMul(I(last.delta), Val(last.price)),
                      calculate_commission(cfg, last.delta, Val(last.price),
                                           FALSE)))
    \/ /\ last.price # Nil /\ last.delta < 0
       /\ \/ last.limit_status = -1
          \/ last.stock \notin DOMAIN last.before.positions
          \/ last.before.positions[last.stock].amount < 0 - last.delta

\* C11: process_order never raises; on an order-level failure it returns
\* False with cash, positions, lots and total_commission as they were, and
\* every False leaves them so.
C11_FailuresLeaveLedger ==
    last.op = "process_order" =>
        /\ ~last.raised
        /\ OrderLevelFailure => ~last.ok
        /\ ~last.ok =>
              /\ Ledger(portfolio) = Ledger(last.before)
              /\ total_commission = last.commission_before

\* A sell of more than is held was refused.
C11_Witness ==
    /\ last.op = "process_order"
    /\ ~last.ok
    /\ last.step = "sell"
    /\ last.stock \in DOMAIN last.before.positions
    /\ last.before.positions[last.stock].amount < 0 - last.delta

(***************************************************************************)
(* C12                                                                     *)
(***************************************************************************)
\* Order `id` asked for more than the volume cap allows, in LIMIT mode, and
\* the cap is positive.
Capped(id) ==
    /\ cfg.limit_mode = "LIMIT"
    /\ max_allowed(cfg, blotter.orders[id].symbol, current_dt) > 0
    /\ Abs(blotter.orders[id].amount) >
          max_allowed(cfg, blotter.orders[id].symbol, current_dt)

\* C12: an order executed by process_orders under the volume cap ends with
\* status partially-filled and filled amount max_allowed.
C12_PartialFillStatus ==
    last.op = "process_orders" =>
        \A i \in 1..Len(last.executed) :
            LET id == last.executed[i] IN
            Capped(id) =>
                /\ blotter.orders[id].status = "partially-filled"
                /\ Abs(blotter.orders[id].filled) =
                      max_allowed(cfg, blotter.orders[id].symbol, current_dt)

(***************************************************************************)
(* C13                                                                     *)
(***************************************************************************)
\* C13: in LIMIT mode no order moves more shares than
\* floor(daily_volume x volume_ratio) of its symbol, and an order whose cap
\* is 0 fails and moves nothing.
C13_VolumeCap ==
    (last.op = "process_orders" /\ cfg.limit_mode = "LIMIT") =>
        /\ \A i \in 1..Len(last.traded) :
              last.traded[i].shares <=
                  max_allowed(cfg, blotter.orders[last.traded[i].id].symbol,
                              current_dt)
        /\ \A i \in 1..Len(last.was_open) :
              LET order == blotter.orders[last.was_open[i]] IN
              (Close(order.symbol, current_dt) # Nil
                  /\ max_allowed(cfg, order.symbol, current_dt) = 0) =>
                    /\ order.status = "failed"
                    /\ \A j \in 1..Len(last.traded) :
                          last.traded[j].id # order.id

(***************************************************************************)
(* C14                                                                     *)
(***************************************************************************)
\* The limit check refuses an order of `amount` shares (signed) at limit
\* state `limit_status`.
LimitRefuses(amount, limit_status) ==
    \/ amount > 0 /\ limit_status = 1
    \/ amount < 0 /\ limit_status = -1

\* C14: a buy at limit-up and a sell at limit-down are refused, by
\* process_order (False) and by process_orders (status failed), and move
\* nothing; a buy at limit-down and a sell at limit-up are not refused by the
\* limit check.
C14_LimitRejections ==
    /\ (last.op = "process_order" /\ last.price # Nil /\ last.delta # 0) =>
          IF LimitRefuses(last.delta, last.limit_status)
          THEN /\ ~last.ok /\ last.step = "limit"
               /\ Ledger(portfolio) = Ledger(last.before)
          ELSE last.step # "limit"
    /\ last.op = "process_orders" =>
          /\ \A i \in 1..Len(last.was_open) :
                LET order == blotter.orders[last.was_open[i]]
                    priced == Close(order.symbol, current_dt) # Nil
                    refused == LimitRefuses(order.amount,
                                   LimitStatus(order.symbol, current_dt))
                IN /\ (priced /\ refused) =>
                        /\ order.status = "failed"
                        /\ \A j \in 1..Len(last.traded) :
                              last.traded[j].id # order.id
                   /\ (order.status = "failed"
                        /\ max_allowed(cfg, order.symbol, current_dt) > 0) =>
                        refused
          /\ last.traded = <<>> => Ledger(portfolio) = Ledger(last.before)

\* process_orders on a limit-up day failed a buy and executed a sell.
C14_Witness ==
    /\ last.op = "process_orders"
    /\ \E i, j \in 1..Len(last.was_open) :
          /\ blotter.orders[last.was_open[i]].amount > 0
          /\ blotter.orders[last.was_open[i]].status = "failed"
          /\ blotter.orders[last.was_open[j]].amount < 0
          /\ blotter.orders[last.was_open[j]].status = "filled"
          /\ LimitStatus(blotter.orders[last.was_open[j]].symbol, current_dt) = 1

(***************************************************************************)
(* C15                                                                     *)
(***************************************************************************)
\* C15, for process_orders called with one open order, a buy that reaches
\* settlement: if trade value + commission is within the cash, the cash
\* falls by exactly that and the shares are added; otherwise the order is
\* failed and the ledger is as it was.
C15_BuySettlement ==
    (last.op = "process_orders" /\ Len(last.was_open) = 1) =>
        LET id == last.was_open[1]
            order == blotter.orders[id]
            close == Close(order.symbol, current_dt)
            cap == max_allowed(cfg, order.symbol, current_dt)
            actual == IF Capped(id) THEN cap ELSE order.amount
            settles == /\ order.amount > 0
                       /\ close # Nil
                       /\ ~LimitRefuses(order.amount,
                                        LimitStatus(order.symbol, current_dt))
                       /\ cfg.limit_mode = "LIMIT" => cap > 0
            due == RAdd(RMul(I(actual), Val(close)),
                        calculate_commission(cfg, actual, Val(close), FALSE))
        IN settles =>
             IF RLe(due, last.before.cash)
             THEN /\ portfolio.cash = RSub(last.before.cash, due)
                  /\ order.symbol \in DOMAIN portfolio.positions
                  /\ portfolio.positions[order.symbol].amount =
                        actual + (IF order.symbol \in DOMAIN last.before.positions
                                  THEN last.before.positions[order.symbol].amount
                                  ELSE 0)
             ELSE /\ order.status = "failed"
                  /\ Ledger(portfolio) = Ledger(last.before)

(***************************************************************************)
(* C16                                                                     *)
(***************************************************************************)
\* base_price x s / 2 for proportional slippage s > 0, else f / 2 for fixed
\* slippage f > 0, else 0
SlippageAmount(c, base_price) ==
    IF c.slippage.n > 0 THEN RDivInt(RMul(base_price, c.slippage), 2)
    ELSE IF c.fixed_slippage.n > 0 THEN RDivInt(c.fixed_slippage, 2)
    ELSE Zero

\* C16: the price process_order executes at is base price + slippage amount
\* for a buy and base price - slippage amount for a sell.
C16_SlippageAgainstTrader ==
    (last.op = "process_order" /\ last.price # Nil /\ last.delta # 0) =>
        LET base_price == IF last.limit_price # Nil THEN Val(last.limit_price)
                          ELSE Val(Close(last.stock, current_dt))
        IN Val(last.price) =
              IF last.delta > 0
              THEN RAdd(base_price, SlippageAmount(cfg, base_price))
              ELSE RSub(base_price, SlippageAmount(cfg, base_price))

(***************************************************************************)
(* C17                                                                     *)
(***************************************************************************)
\* C17: process_order with the target equal to the holding creates no Order
\* and leaves cash, positions, lots, the value cache and total_commission as
\* they were; with a price it returns True without trading.
C17_ZeroDeltaNoOp ==
    (last.op = "process_order" /\ last.delta = 0) =>
        /\ portfolio = last.before
        /\ total_commission = last.commission_before
        /\ blotter.order_id_counter = last.orders_before
        /\ blotter.open_orders = <<>>
        /\ last.price # Nil => (last.ok /\ last.step = "no_trade")

\* The holding was targeted again on a limit-up day with the value cached.
C17_Witness ==
    /\ last.op = "process_order"
    /\ last.delta = 0
    /\ last.target_amount > 0
    /\ last.limit_status = 1
    /\ last.before.cached_value # Nil
    /\ last.ok

(***************************************************************************)
(* C18                                                                     *)
(***************************************************************************)
\* C18: with commission_ratio = 0 calculate_commission is 0 for every amount
\* and price, buying and selling; nothing is ever added to
\* total_commission, a buy debits exactly amount x price and a sell credits
\* exactly amount x price less the dividend-tax adjustment.
C18_ZeroRatioZeroCommission ==
    cfg.commission_ratio = Zero =>
        /\ \A amount \in {1, 100, 1000}, is_sell \in BOOLEAN :
           \A price \in {I(2), I(10), Q(1, 100), Q(2001, 200)} :
              calculate_commission(cfg, amount, price, is_sell) = Zero
        /\ total_commission = Zero
        /\ (last.op = "process_order" /\ last.ok /\ last.delta > 0) =>
              portfolio.cash =
                  RSub(last.before.cash,
                       RMul(I(last.delta), Val(last.price)))
        /\ (last.op = "process_order" /\ last.ok /\ last.delta < 0) =>
              portfolio.cash =
                  RSub(RAdd(last.before.cash,
                            RMul(I(0 - last.delta), Val(last.price))),
                       calculate_dividend_tax(last.before, last.stock,
                                              0 - last.delta,
                                              current_dt).tax_adjustment)

\* A sale at ratio 0 whose dividend-tax adjustment was not zero.
C18_Witness ==
    /\ cfg.commission_ratio = Zero
    /\ last.op = "process_order" /\ last.ok /\ last.delta < 0
    /\ calculate_dividend_tax(last.before, last.stock, 0 - last.delta,
                              current_dt).tax_adjustment # Zero

(***************************************************************************)
(* C19                                                                     *)
(***************************************************************************)
\* The dividend per share due on `date` to the holder of `stock`, 0 if none
Due(pf, stock, date) ==
    IF stock \in DOMAIN pf.positions /\ Dividend(stock, date) # Nil
    THEN Val(Dividend(stock, date)) ELSE Zero

RateByHolding(days) ==
    IF days <= 30 THEN Q(20, 100)
    ELSE IF days <= 365 THEN Q(10, 100)
    ELSE Zero

\* The shares held in the lots before the k-th
RECURSIVE AmountBefore(_, _)
AmountBefore(lots, k) ==
    IF k <= 1 THEN 0 ELSE AmountBefore(lots, k - 1) + lots[k - 1].amount

\* The shares a sale of `amount` takes from the k-th lot, oldest lot first
SoldFrom(lots, k, amount) ==
    LET left == amount - AmountBefore(lots, k)
    IN IF left <= 0 THEN 0 ELSE Min(left, lots[k].amount)

\* Sum over the lots of lot dividend total x sold fraction x (rate - 0.20)
ExpectedAdjustment(lots, amount, sell_date) ==
    RSum([k \in 1..Len(lots) |->
             RMul(RMul(lots[k].dividends_total,
                       Q(SoldFrom(lots, k, amount), lots[k].amount)),
                  RSub(RateByHolding(sell_date - lots[k].date), Q(20, 100)))],
         1..Len(lots))

\* Lots of 100 shares with their dividend totals, oldest first
SampleLots ==
    {<<[date |-> 1, amount |-> 100, dividends_total |-> I(100)]>>,
     <<[date |-> 1, amount |-> 100, dividends_total |-> I(200)],
       [date |-> 11, amount |-> 100, dividends_total |-> I(100)]>>,
     <<[date |-> 1, amount |-> 50, dividends_total |-> Q(25, 2)],
       [date |-> 45, amount |-> 100, dividends_total |-> Zero]>>}

\* C20: the tax adjustment of a sale is the sum over the lots consumed
\* oldest-first of dividend total x sold fraction x (rate - 0.20), the rate
\* being 20% up to 30 days of holding, 10% from 31 to 365 and 0 beyond; 100
\* shares with 100 of dividends give 0 after 10 days and -20 after 400; and
\* a sale credits trade value - commission - adjustment to cash.  The
\* first conjunct is about the function alone and is evaluated before the
\* first order.
C20_TaxAdjustment ==
    /\ ops = 0 =>
          \A lots \in SampleLots, amount \in {50, 100, 150},
             sell_date \in {11, 31, 32, 45, 75, 76, 366, 367, 410, 411} :
             amount <= AmountBefore(lots, Len(lots) + 1) =>
                dividend_tax_loop(lots, 1, amount, Zero, sell_date).tax_adjustment
                   = ExpectedAdjustment(lots, amount, sell_date)
    /\ dividend_tax_loop(<<[date |-> 1, amount |-> 100, dividends_total |-> I(100)]>>,
                         1, 100, Zero, 11).tax_adjustment = Zero
    /\ dividend_tax_loop(<<[date |-> 1, amount |-> 100, dividends_total |-> I(100)]>>,
                         1, 100, Zero, 401).tax_adjustment = I(0 - 20)
    /\ (last.op = "process_order" /\ last.ok /\ last.delta < 0) =>
          LET amount == 0 - last.delta
              price == Val(last.price)
          IN /\ last.stock \in DOMAIN last.before.lots
             /\ remove_position(last.before, last.stock, amount, current_dt).tax_adjustment
                   = ExpectedAdjustment(last.before.lots[last.stock], amount, current_dt)
             /\ portfolio.cash =
                   RSub(RSub(RAdd(last.before.cash, RMul(I(amount), price)),
                             calculate_commission(cfg, amount, price, TRUE)),
                        ExpectedAdjustment(last.before.lots[last.stock], amount, current_dt))

\* 100 shares bought 400 days ago that received 100 of dividends are sold:
\* the adjustment is -20, a refund.
C20_Witness ==
    /\ last.op = "process_order" /\ last.ok /\ last.delta = 0 - 100
    /\ Len(last.before.lots[last.stock]) = 1
    /\ last.before.lots[last.stock][1].dividends_total = I(100)
    /\ current_dt - last.before.lots[last.stock][1].date = 400
    /\ ExpectedAdjustment(last.before.lots[last.stock], 100, current_dt) = I(0 - 20)
    /\ portfolio.cash =
          RAdd(RAdd(last.before.cash, RMul(I(100), Val(last.price))), I(20))

\* The same 100 shares sold 10 days after the purchase: no adjustment.
C20_WitnessShort ==
    /\ last.op = "process_order" /\ last.ok /\ last.delta = 0 - 100
    /\ last.before.lots[last.stock][1].dividends_total = I(100)
    /\ current_dt - last.before.lots[last.stock][1].date = 10
    /\ ExpectedAdjustment(last.before.lots[last.stock], 100, current_dt) = Zero

(***************************************************************************)
(* C21                                                                     *)
(***************************************************************************)
RECURSIVE SumTotals(_)
SumTotals(lots) ==
    IF lots = <<>> THEN Zero
    ELSE RAdd(Head(lots).dividends_total, SumTotals(Tail(lots)))

\* The dividend amount of the k-th lot that a sale of `amount` is taxed on
TaxedBase(lots, k, amount) ==
    RMul(lots[k].dividends_total, Q(SoldFrom(lots, k, amount), lots[k].amount))

\* The adjustments of the sales q1, q2 and then the rest of one lot of 100
\* shares with dividend total T, bought on day 1 and sold on day 45
SalesOfOneLot(T, q1, q2) ==
    LET r1 == dividend_tax_loop(
                <<[date |-> 1, amount |-> 100, dividends_total |-> T]>>,
                1, q1, Zero, 45)
        r2 == dividend_tax_loop(r1.lots, 1, q2, Zero, 45)
        r3 == dividend_tax_loop(r2.lots, 1, 100 - q1 - q2, Zero, 45)
    IN [lots |-> r3.lots,
        tax_adjustment |-> RAdd(r1.tax_adjustment,
                                RAdd(r2.tax_adjustment, r3.tax_adjustment))]

\* C21: a sale that takes only q of a lot (a, T) leaves the lot with a - q
\* shares and the dividend total T x (a - q) / a; the dividend amounts the
\* sale is taxed on and the totals left in the lots add up to the totals
\* before the sale, so that the sales consuming a lot are taxed on exactly
\* the dividends it received.  The last conjunct is about the function alone
\* and is evaluated before the first operation.
C21_ProRatedRemainder ==
    /\ (last.op = "remove_position" /\ ~last.raised
            /\ last.stock \in DOMAIN last.before.positions) =>
          LET before == last.before.lots[last.stock]
              k == last.amount
              after == IF last.stock \in DOMAIN portfolio.lots
                       THEN portfolio.lots[last.stock] ELSE <<>>
          IN /\ \A i \in 1..Len(before) :
                   LET q == SoldFrom(before, i, k)
                       a == before[i].amount
                   IN (0 < q /\ q < a) =>
                         /\ Len(after) >= 1
                         /\ after[1].amount = a - q
                         /\ after[1].dividends_total =
                               RMul(before[i].dividends_total, Q(a - q, a))
             /\ SumTotals(before) =
                   RAdd(SumTotals(after),
                        RSum([i \in 1..Len(before) |-> TaxedBase(before, i, k)],
                             1..Len(before)))
             /\ last.tax_adjustment =
                   RSum([i \in 1..Len(before) |->
                            RMul(TaxedBase(before, i, k),
                                 RSub(RateByHolding(current_dt - before[i].date),
                                      Q(20, 100)))],
                        1..Len(before))
    /\ ops = 0 =>
          \A T \in {I(100), Q(25, 2)}, q1 \in {20, 50}, q2 \in {30, 50} :
             /\ SalesOfOneLot(T, q1, q2).lots = <<>>
             /\ SalesOfOneLot(T, q1, q2).tax_adjustment
                   = RMul(T, RSub(Q(10, 100), Q(20, 100)))

\* 20 or 50 shares were sold out of a lot that had received dividends: the
\* lot is still there with fewer shares and a smaller dividend total.
C21_Witness ==
    /\ last.op = "remove_position" /\ ~last.raised
    /\ last.stock \in DOMAIN portfolio.lots
    /\ last.before.lots[last.stock][1].dividends_total.n > 0
    /\ last.amount < last.before.lots[last.stock][1].amount
    /\ portfolio.lots[last.stock][1].amount
          = last.before.lots[last.stock][1].amount - last.amount
    /\ RLt(portfolio.lots[last.stock][1].dividends_total,
           last.before.lots[last.stock][1].dividends_total)

(***************************************************************************)
(* C22                                                                     *)
(***************************************************************************)
\* The shares of `stock` held in pf, 0 when it has no position
Holding(pf, stock) ==
    IF stock \in DOMAIN pf.positions THEN pf.positions[stock].amount ELSE 0

\* C22: remove_position of more shares than are held, a symbol not held
\* counting as a holding of 0, fails with an error and leaves cash,
\* positions and lots as they were.
C22_ExcessRemovalFails ==
    (last.op = "remove_position"
        /\ last.amount > Holding(last.before, last.stock)) =>
        /\ last.raised
        /\ portfolio.cash = last.before.cash
        /\ portfolio.positions = last.before.positions
        /\ portfolio.lots = last.before.lots

(***************************************************************************)
(* C27                                                                     *)
(***************************************************************************)
\* C27: a buy of n shares at price p into an empty symbol creates the
\* position (n, p); into a held symbol it gives old + n shares at the
\* volume-weighted cost (old x old_cost + n x p) / (old + n).  With no
\* slippage and no commission, 100 shares bought at 10 cost exactly 1000 and
\* give amount 100, cost_basis 10.
C27_AddPosition ==
    (last.op = "process_order" /\ last.ok /\ last.delta > 0) =>
        LET n == last.delta
            p == Val(last.price)
            now == portfolio.positions[last.stock]
        IN /\ last.stock \in DOMAIN portfolio.positions
           /\ IF last.stock \notin DOMAIN last.before.positions
              THEN now.amount = n /\ now.cost_basis = p
              ELSE LET old == last.before.positions[last.stock]
                   IN /\ now.amount = old.amount + n
                      /\ RMul(now.cost_basis, I(old.amount + n))
                            = RAdd(RMul(I(old.amount), old.cost_basis),
                                   RMul(I(n), p))
           /\ (/\ cfg.commission_ratio = Zero
               /\ cfg.slippage = Zero /\ cfg.fixed_slippage = Zero
               /\ last.limit_price = Nil
               /\ Close(last.stock, current_dt) = Some(I(10))
               /\ n = 100
               /\ last.stock \notin DOMAIN last.before.positions)
                 => /\ portfolio.cash = RSub(last.before.cash, I(1000))
                    /\ now.amount = 100
                    /\ now.cost_basis = I(10)

\* 100 shares at 10 and then 100 more at 20: 200 shares at a cost of 15.
C27_Witness ==
    /\ last.op = "process_order" /\ last.ok /\ last.delta = 100
    /\ last.stock \in DOMAIN last.before.positions
    /\ last.before.positions[last.stock] = [amount |-> 100, cost_basis |-> I(10)]
    /\ Val(last.price) = I(20)
    /\ portfolio.positions[last.stock] = [amount |-> 200, cost_basis |-> I(15)]

\* The first buy: 100 shares at 10 with no fees, 1000 less cash.
C27_WitnessFirst ==
    /\ last.op = "process_order" /\ last.ok /\ last.delta = 100
    /\ cfg.commission_ratio = Zero /\ cfg.slippage = Zero
    /\ last.stock \notin DOMAIN last.before.positions
    /\ Val(last.price) = I(10)
    /\ portfolio.cash = RSub(last.before.cash, I(1000))
    /\ portfolio.positions[last.stock] = [amount |-> 100, cost_basis |-> I(10)]

(***************************************************************************)
(* C28                                                                     *)
(***************************************************************************)
\* The lots of `stock` in pf, none when it has no lot list
LotsOf(pf, stock) ==
    IF stock \in DOMAIN pf.lots THEN pf.lots[stock] ELSE <<>>

\* C28: add_position appends one lot (the date and the amount of the buy,
\* no dividends) after the symbol's lots and leaves the earlier lots as they
\* were, also on the date of the newest lot; every stored lot has a positive
\* amount and the lots of a symbol are in acquisition order.
C28_LotsAppendOnly ==
    /\ last.op = "add_position" =>
          /\ last.stock \in DOMAIN portfolio.lots
          /\ portfolio.lots[last.stock] =
                Append(LotsOf(last.before, last.stock),
                       [date |-> current_dt, amount |-> last.amount,
                        dividends_total |-> Zero])
          /\ \A s \in DOMAIN last.before.lots \ {last.stock} :
                s \in DOMAIN portfolio.lots
                   /\ portfolio.lots[s] = last.before.lots[s]
    /\ \A s \in DOMAIN portfolio.lots :
          /\ portfolio.lots[s] # <<>>
          /\ \A k \in 1..Len(portfolio.lots[s]) :
                portfolio.lots[s][k].amount > 0
          /\ \A k \in 1..(Len(portfolio.lots[s]) - 1) :
                portfolio.lots[s][k].date <= portfolio.lots[s][k + 1].date

\* A second buy on the date of the first: two lots of the same date.
C28_Witness ==
    /\ last.op = "add_position"
    /\ Len(LotsOf(last.before, last.stock)) = 1
    /\ last.before.lots[last.stock][1].date = current_dt
    /\ Len(portfolio.lots[last.stock]) = 2
    /\ portfolio.lots[last.stock][1] = last.before.lots[last.stock][1]
    /\ portfolio.lots[last.stock][2].date = current_dt

(***************************************************************************)
(* C29                                                                     *)
(***************************************************************************)
\* C29: an order that process_orders marks filled or partially-filled moved
\* as many shares as its filled quantity says (bought when positive, sold
\* when negative), and the cash moved by the call is the filled quantities
\* times the execution price, paid for buys and received for sells.
C29_FilledMatchesLedger ==
    last.op = "process_orders" =>
        /\ \A i \in 1..Len(last.traded) :
              LET order == blotter.orders[last.traded[i].id]
              IN order.status \in {"filled", "partially-filled"} =>
                    last.traded[i].shares = Abs(order.filled)
        /\ portfolio.cash =
              RSub(last.before.cash,
                   RSum([i \in 1..Len(last.executed) |->
                            LET order == blotter.orders[last.executed[i]]
                            IN RMul(I(order.filled),
                                    Val(Close(order.symbol, current_dt)))],
                        1..Len(last.executed)))

(***************************************************************************)
(* C23                                                                     *)
(***************************************************************************)
\* The phases an operation is permitted in, as the specification lists
\* them; an operation marked 'all' or not listed is permitted everywhere.
PermittedPhases(op) ==
    CASE op \in {"order", "get_snapshot"} -> {HANDLE_DATA, TICK_DATA}
      [] op \in {"set_commission", "get_research_path"} -> {INITIALIZE}
      [] op = "send_email" ->
            {AFTER_TRADING_END, ON_ORDER_RESPONSE, ON_TRADE_RESPONSE}
      [] OTHER -> LifecyclePhase

C23_WitnessValid ==
    /\ last.op = "validate_api_call"
    /\ \/ last.api_name = "my_helper" /\ current_phase = AFTER_TRADING_END
       \/ last.api_name = "order" /\ current_phase = None
    /\ last.result.is_valid

(***************************************************************************)
(* C24                                                                     *)
(***************************************************************************)
\* C24: in a controller created in a mode that is not among the supported
\* modes of an operation, validate_api_call reports the operation invalid
\* (order in research mode, get_snapshot in backtest mode), here in every
\* phase that is set.
C24_ModeRejected ==
    (/\ last.op = "validate_api_call"
     /\ current_phase # None
     /\ last.api_name \in {"order", "get_snapshot", "set_commission", "get_price"}
     /\ ~is_api_supported_in_mode(last.api_name, controller.strategy_mode))
        => ~last.result.is_valid

(***************************************************************************)
(* C25                                                                     *)
(***************************************************************************)
\* The number of calls of `op` among the calls made since the last reset
Invocations(op) ==
    Cardinality({i \in 1..Len(call_log) : call_log[i].api_name = op})

\* C25: the call history holds at most 1000 records, and they are the most
\* recent calls in call order, each with the phase that was current when it
\* was recorded ('unknown' when none was set); the counter of an operation
\* is the number of its calls since the last reset.
C25_BoundedHistory ==
    LET history == controller.call_history
        dropped == Len(call_log) - Len(history)
    IN /\ Len(history) <= 1000
       /\ Len(history) = Min(Len(call_log), 1000)
       /\ \A i \in 1..Len(history) :
             /\ history[i].api_name = call_log[dropped + i].api_name
             /\ history[i].success = call_log[dropped + i].success
             /\ history[i].phase =
                   IF call_log[dropped + i].at_phase = None THEN "unknown"
                   ELSE call_log[dropped + i].at_phase
       /\ \A op \in {"order", "get_price", "my_helper"} :
             Invocations(op) =
                IF op \in DOMAIN controller.api_call_count
                THEN controller.api_call_count[op] ELSE 0

\* 1001 calls, the first an order call before any phase was set: the oldest
\* record is gone from the history and still counted.
C25_Witness ==
    /\ Len(call_log) = 1001
    /\ call_log[1] = [api_name |-> "order", at_phase |-> None, success |-> TRUE]
    /\ Len(controller.call_history) = 1000
    /\ controller.call_history[1].api_name = "get_price"
    /\ controller.call_history[1000].phase = HANDLE_DATA
    /\ controller.api_call_count["order"] = Invocations("order")

\* A short history: a call before any phase is set is recorded as 'unknown'.
C25_WitnessUnknown ==
    /\ Len(call_log) = 1
    /\ controller.call_history[1].phase = "unknown"

(***************************************************************************)
(* C26                                                                     *)
(***************************************************************************)
\* C26: after a successful set_phase(q), q is the current phase and is in
\* the executed set, which no call but reset makes smaller; the callbacks
\* registered for q have each been called once, in registration order, with
\* q already current; and no exception of a callback leaves set_phase, undoes
\* the change or keeps a later callback from running.
C26_PhaseCallbacks ==
    /\ (last.op = "set_phase" /\ ~last.rejected) =>
          LET registered == controller.phase_callbacks[last.to]
          IN /\ current_phase = last.to
             /\ last.to \in phase_executed
             /\ ~last.raised
             /\ Len(last.callbacks_run) = Len(registered)
             /\ \A i \in 1..Len(registered) :
                   /\ last.callbacks_run[i].id = registered[i].id
                   /\ last.callbacks_run[i].phase_seen = last.to
    /\ last.op \in {"set_phase", "register_phase_callback"} =>
          last.executed_before \subseteq phase_executed

\* A raising callback registered before a returning one for the same phase:
\* both are called when the phase is set.
C26_Witness ==
    /\ last.op = "set_phase" /\ ~last.rejected
    /\ Len(controller.phase_callbacks[last.to]) = 2
    /\ controller.phase_callbacks[last.to][1].raises
    /\ ~controller.phase_callbacks[last.to][2].raises
    /\ current_phase = last.to
    /\ Len(last.callbacks_run) = 2
    /\ last.callbacks_run[2].id = controller.phase_callbacks[last.to][2].id

(***************************************************************************)
(* C30                                                                     *)
(***************************************************************************)
\* C30: Context.is_api_allowed(op) is True exactly when op is permitted in
\* the current phase, and False when validate_api_call(op) reports the call
\* invalid (order during initialize).
C30_IsApiAllowed ==
    (last.op = "is_api_allowed" /\ last.api_name # "") =>
        /\ last.result
              <=> (current_phase = None
                      \/ current_phase \in PermittedPhases(last.api_name))
        /\ ~validate_api_call(current_phase, last.api_name).is_valid
              => ~last.result

(***************************************************************************)
(* C31                                                                     *)
(***************************************************************************)
IsOpen(bl, id) == \E i \in 1..Len(bl.open_orders) : bl.open_orders[i] = id

\* C31: cancel_order on an open order takes it out of open_orders, sets its
\* status to cancelled and returns True, and no later process_orders touches
\* the order; on an order that is not open it returns False and changes
\* nothing.  The ids of the orders of a blotter are distinct and increase
\* with every order created.
C31_CancelOrder ==
    /\ (last.op = "cancel_order" /\ IsOpen(last.before, last.id)) =>
          /\ last.ok
          /\ ~IsOpen(blotter, last.id)
          /\ blotter.open_orders = Remove(last.before.open_orders, last.id)
          /\ blotter.orders[last.id].status = "cancelled"
          /\ \A id \in DOMAIN blotter.orders \ {last.id} :
                blotter.orders[id] = last.before.orders[id]
    /\ (last.op = "cancel_order" /\ ~IsOpen(last.before, last.id)) =>
          /\ ~last.ok
          /\ blotter = last.before
    /\ last.op = "process_orders" =>
          \A id \in DOMAIN last.orders_before :
             last.orders_before[id].status = "cancelled" =>
                /\ blotter.orders[id] = last.orders_before[id]
                /\ \A i \in 1..Len(last.executed) : last.executed[i] # id
    /\ \A id \in DOMAIN blotter.orders :
          blotter.orders[id].status = "cancelled" =>
             ~IsOpen(blotter, id) /\ blotter.orders[id].filled = 0
    /\ DOMAIN blotter.orders = 1..blotter.order_id_counter
    /\ \A id \in DOMAIN blotter.orders : blotter.orders[id].id = id
    /\ last.op = "create_order" =>
          /\ last.id \in DOMAIN blotter.orders
          /\ \A id \in DOMAIN blotter.orders \ {last.id} : id < last.id
    /\ \A i \in 1..(Len(blotter.open_orders) - 1) :
          blotter.open_orders[i] < blotter.open_orders[i + 1]

\* A cancelled order, and a later process_orders that filled another order.
C31_Witness ==
    /\ last.op = "process_orders"
    /\ Len(last.executed) >= 1
    /\ \E id \in DOMAIN last.orders_before :
          /\ last.orders_before[id].status = "cancelled"
          /\ blotter.orders[id].filled = 0

\* cancel_order on an order that was filled: False.
C31_WitnessNotOpen ==
    /\ last.op = "cancel_order" /\ ~last.ok
    /\ blotter.orders[last.id].status = "filled"

(***************************************************************************)
(* C32                                                                     *)
(***************************************************************************)
\* C32: a set_phase that is rejected as an invalid transition changes
\* nothing: the current phase, the executed phases, the call history, the
\* counters and the registered callbacks are as before, and no callback is
\* invoked.
C32_RejectedSetPhase ==
    (last.op = "set_phase" /\ last.rejected) =>
        /\ ~validate_phase_transition(last.from, last.to)
        /\ last.raised
        /\ current_phase = last.from
        /\ phase_executed = last.executed_before
        /\ controller = last.controller_before
        /\ last.callbacks_run = <<>>

\* A rejected transition into a phase that has callbacks registered, on a
\* controller with a recorded call and an executed phase.
C32_Witness ==
    /\ last.op = "set_phase" /\ last.rejected
    /\ controller.phase_callbacks[last.to] # <<>>
    /\ controller.call_history # <<>>
    /\ phase_executed # {}

(***************************************************************************)
(* C33                                                                     *)
(***************************************************************************)
InLock(t) == threads.local[t].pc \in {"validate", "assign", "finish",
                                      "build", "append"}

\* C33: with threads calling set_phase and record_api_call concurrently,
\* every value the current phase takes follows its predecessor by an edge of
\* the transition graph (the phase a transition was validated against is the
\* phase it replaces), every record appended to the history carries the phase
\* that is current when it is appended, and at most one thread is between
\* the acquisition and the release of the lock.
C33_AtomicUnderLock ==
    /\ last.op = "t_assign" =>
          /\ last.validated_from = last.from
          /\ validate_phase_transition(last.from, last.to)
    /\ last.op = "t_append" =>
          /\ last.record_phase = recorded_phase(last.phase_at_append)
          /\ controller.call_history[Len(controller.call_history)].phase
                = recorded_phase(current_phase)
    /\ threads.local # <<>> =>
          /\ Cardinality({t \in Threads : InLock(t)}) <= 1
          /\ \A t \in Threads : InLock(t) => threads.owner = Some(t)

\* A transition is applied while another thread waits for the lock with a
\* set_phase of its own.
C33_Witness ==
    /\ last.op = "t_assign"
    /\ last.from # None
    /\ \E t \in Threads : /\ t # last.thread
                          /\ threads.local[t].pc = "lock"
                          /\ threads.local[t].call = "set_phase"

\* A record is appended while another thread waits with a set_phase.
C33_WitnessRecord ==
    /\ last.op = "t_append"
    /\ last.phase_at_append # None
    /\ \E t \in Threads : /\ t # last.thread
                          /\ threads.local[t].pc = "lock"
                          /\ threads.local[t].call = "set_phase"

(***************************************************************************)
(* C34                                                                     *)
(***************************************************************************)
FailedRecorded == Cardinality({i \in 1..Len(call_log) : ~call_log[i].success})

\* C34: get_call_statistics reports as total_api_calls the number of calls
\* recorded since the last reset, as failed_calls the number of them recorded
\* with success = False, and as success_rate (total - failed) / max(total, 1),
\* also when more than 1000 calls have been recorded.
C34_CallStatistics ==
    last.op = "get_call_statistics" =>
        /\ last.stats.total_api_calls = Len(call_log)
        /\ last.stats.failed_calls = FailedRecorded
        /\ last.stats.success_rate =
              Q(Len(call_log) - FailedRecorded,
                IF Len(call_log) > 1 THEN Len(call_log) ELSE 1)

(***************************************************************************)
(* C35                                                                     *)
(***************************************************************************)
\* C35: after reset the current phase is None, no phase is executed, the
\* call history and the counters are empty and the statistics are those of
\* a new controller, Initialize is the only transition accepted, and the
\* registered callbacks and the strategy mode are those from before.
C35_Reset ==
    last.op = "reset" =>
        /\ current_phase = None
        /\ phase_executed = {}
        /\ controller.call_history = <<>>
        /\ controller.api_call_count = <<>>
        /\ get_call_statistics(controller)
              = get_call_statistics(NewController(controller.strategy_mode))
        /\ {p \in LifecyclePhase : validate_phase_transition(current_phase, p)}
              = {INITIALIZE}
        /\ controller.phase_callbacks = last.callbacks_before
        /\ controller.strategy_mode = last.mode_before
        /\ [controller EXCEPT !.phase_callbacks =
                                 NewController("backtest").phase_callbacks]
              = NewController(last.mode_before)

\* A reset of a controller in handle_data with a recorded call and a
\* registered callback.
C35_Witness ==
    /\ last.op = "reset"
    /\ last.phase_before = HANDLE_DATA
    /\ last.recorded_before > 0
    /\ last.callbacks_before[HANDLE_DATA] # <<>>

(***************************************************************************)
(* C36                                                                     *)
(***************************************************************************)
\* C36: run_backtest enters Initialize exactly when the controller is at
\* None or AfterTradingEnd.  A second run_backtest after a completed run of
\* at least one day is accepted; after a run that ended in a raising
\* before_trading_start or handle_data, or a completed run over no day, it
\* is rejected at set_phase(Initialize): run_backtest returns False, the
\* phase and the ledger are as before and no strategy function is called.
C36_SecondRun ==
    last.op = "initialize" =>
        /\ last.rejected <=> last.from \notin {None, AFTER_TRADING_END}
        /\ last.rejected =>
              /\ run.pc = "done" /\ run.result = "False"
              /\ ~last.raised
              /\ current_phase = last.from
              /\ portfolio = last.before
              /\ run.phase_log = <<[phase |-> INITIALIZE, accepted |-> FALSE,
                                    day |-> 0]>>
        /\ run.earlier # <<>> =>
              LET prev == run.earlier[Len(run.earlier)] IN
              /\ (prev.result = "True" /\ prev.days >= 1) => ~last.rejected
              /\ (prev.result = "True" /\ prev.days = 0) => last.rejected
              /\ (/\ prev.fatal # Nil
                  /\ Val(prev.fatal).func \in {"before_trading_start",
                                               "handle_data"})
                    => last.rejected

\* The second run_backtest after a run that ended in a raising handle_data
\* is rejected, with a purchase of the first run in the ledger.
C36_Witness ==
    /\ last.op = "initialize" /\ last.rejected
    /\ run.earlier # <<>>
    /\ run.earlier[1].fatal # Nil
    /\ Val(run.earlier[1].fatal).func = "handle_data"
    /\ portfolio.positions # <<>>

\* The second run_backtest after a completed run of one day is accepted.
C36_WitnessAccepted ==
    /\ last.op = "initialize" /\ ~last.rejected
    /\ run.earlier # <<>>
    /\ run.earlier[1].result = "True" /\ run.earlier[1].days >= 1

\* The second run_backtest after a completed run over no day is rejected.
C36_WitnessZeroDays ==
    /\ last.op = "initialize" /\ last.rejected
    /\ run.earlier # <<>>
    /\ run.earlier[1].result = "True" /\ run.earlier[1].days = 0

C37_WitnessShort ==
    /\ last.op = "remove_position" /\ ~last.raised
    /\ last.tax_adjustment = Zero
    /\ \E i \in 1..Len(LotsOf(last.before, last.stock)) :
          RLt(Zero, LotsOf(last.before, last.stock)[i].dividends_total)

(***************************************************************************)
(* C38                                                                     *)
(***************************************************************************)
\* The mean of the closes of the `window` rows that end on `date`.
MeanEndingOn(stock, date, window) ==
    window_mean(stock, date_dict(stock, date), window)

\* C38: mavg(window) read during handle_data returns the mean of the closes
\* of the window that ends on the current date, whatever was read earlier
\* that day.
C38_MavgInHandleData ==
    (/\ last.op = "mavg"
     /\ last.phase = HANDLE_DATA
     /\ ~last.raised
     /\ InRows(last.stock, current_dt))
        => last.value = Some(MeanEndingOn(last.stock, current_dt, last.window))

====
